---- MODULE Spec2Model ----
(***************************************************************************)
(* A model of the rubust class-file decompiler: the bytecode decoder       *)
(* (class/op.rs), the control-flow graph builder (decomp/ast.rs, repeated  *)
(* verbatim in decomp/ops.rs) and the constant-pool reader                 *)
(* (class/constant.rs).                                                    *)
(*                                                                         *)
(* Code bytes are naturals 0..255; data[p + 1] is the byte at the 0-based  *)
(* cursor position p.  A Rust panic is modelled as an explicit "panic"     *)
(* outcome.                                                                *)
(***************************************************************************)
EXTENDS Integers, Sequences, FiniteSets, TLC

VARIABLES
    data,           \* parse_code: the code bytes handed to the decoder
    cursor,         \* parse_code: Cursor position
    instructions,   \* parse_code: the InstrSet built so far, <<pos, instr>> pairs
    status,         \* parse_code: "decoding", "ok", or the error it returned
    errcode,        \* the byte carried by UnknownInstruction / UnknownArrayType
    cfg,            \* gen_control_flow_graph: [state, blocks]
    wire,           \* ConstantPool::read: the tag bytes of the constants on the wire
    size,           \* ConstantPool::read: the declared constant_pool_count
    index,          \* ConstantPool::read: the u16 index counter
    nread,          \* ConstantPool::read: how many constants were read from the wire
    inner,          \* ConstantPool::read: pool.inner, index -> constant
    poolst,         \* ConstantPool::read: "reading", "ok", "io", "panic"
    block,          \* Block::decompile: self.instructions (the Instr of each entry)
    pc,             \* Block::decompile: how many instructions the loop has taken
    stack,          \* Block::decompile: stack.values, the top is the last element
    statements,     \* Block::decompile: the statement list
    liftst,         \* Block::decompile: "lifting", "ok", "err", "panic"
    lifterr,        \* Block::decompile: the error returned, [kind, n]
    text,           \* the &str handed to Descriptor::parse / ClassPath::from
    parsed,         \* the Descriptor / ClassPath built from text
    rendered,       \* to_internal_java() / internal_path() of parsed
    textst,         \* "input", "parsed", "rendered", "panic"
    flags,          \* AccessFlags.0
    lastcall,       \* the last AccessFlags call: "new", "set", "is_set"
    flag,           \* the AccessFlag handed to the last set / is_set call
    answer,         \* what the last is_set call returned
    methods,        \* write_class: class.methods, the code array of each method
    mi,             \* write_class: how many methods the loop has taken
    written,        \* write_class: indices of the methods whose body was rendered
    writest,        \* write_class: "writing", "ok", "err", "panic"
    splitvec,       \* split_at_multiple: the vector handed to it
    splitidx,       \* split_at_multiple: the split indices handed to it
    splitout,       \* split_at_multiple: the slices it returned
    splitst         \* split_at_multiple: "ready", "ok", "panic"

vars == <<data, cursor, instructions, status, errcode, cfg,
          wire, size, index, nread, inner, poolst,
          block, pc, stack, statements, liftst, lifterr,
          text, parsed, rendered, textst,
          flags, lastcall, flag, answer,
          methods, mi, written, writest,
          splitvec, splitidx, splitout, splitst>>

decodeVars == <<data, cursor, instructions, status, errcode, cfg>>
poolVars == <<wire, size, index, nread, inner, poolst>>
liftVars == <<block, pc, stack, statements, liftst, lifterr>>
textVars == <<text, parsed, rendered, textst>>
accessVars == <<flags, lastcall, flag, answer>>
classVars == <<methods, mi, written, writest>>
splitVars == <<splitvec, splitidx, splitout, splitst>>

----------------------------------------------------------------------------
(* Bounds of the model.                                                    *)

\* longest code array built from arbitrary bytes of RawBytes
MaxRawLen == 4
\* longest code array assembled from whole instructions of Chunks
MaxChunks == 3
\* largest declared constant_pool_count
MaxPoolCount == 5
\* most pushes before the instruction under study in a lifted block
MaxPrefix == 3
\* most parameters of a method descriptor handed to Descriptor::parse
MaxParams == 2
\* most array dimensions of a field descriptor handed to Descriptor::parse
MaxDims == 2
\* most package segments of an internal name handed to ClassPath::from
MaxPackages == 2
\* deepest nesting of type names in an internal name
MaxNest == 2
\* most bits set in a flag word handed to AccessFlags
MaxFlagBits == 2
\* methods of a class
MaxMethods == 3
\* most constants on the wire after the constants that fill the low indexes
MaxTail == 4
\* longest vector handed to split_at_multiple
MaxVecLen == 3
\* most split indices handed to split_at_multiple
MaxSplits == 3

----------------------------------------------------------------------------
(* Integer widths and casts (Rust `as`).  The model's integers end at      *)
(* 2^31 - 1, so a 32-bit word is held as the i32 with the same bits: a u32 *)
(* of 2^31 or more appears as the negative number u32 - 2^32, and `as i32` *)
(* and `as u32` leave the held number unchanged.                           *)

U8 == 2^8
U16 == 2^16
I32Max == (2^30 - 1) * 2 + 1
I32Min == -I32Max - 1

as_i8(v) == IF v >= 2^7 THEN v - U8 ELSE v
as_i16(v) == IF v >= 2^15 THEN v - U16 ELSE v
as_u16(x) == x % U16

\* a <= b for two u32 held as i32
u32_le(a, b) == IF (a >= 0) <=> (b >= 0) THEN a <= b ELSE a >= 0

\* a + b wrapped to 32 bits, for a >= 0
wrapping_add(a, b) ==
    IF b > I32Max - a THEN (((b - I32Max) - 1) + a) + I32Min ELSE a + b

Min(a, b) == IF a < b THEN a ELSE b

----------------------------------------------------------------------------
(* io.rs: big-endian reads from a Cursor over the code bytes.  A short     *)
(* read is an I/O error (UnexpectedEof).                                   *)

ReadFail == [ok |-> FALSE, v |-> 0, p |-> 0]

read_u8(d, p) ==
    IF p + 1 <= Len(d) THEN [ok |-> TRUE, v |-> d[p + 1], p |-> p + 1]
    ELSE ReadFail

read_u16(d, p) ==
    IF p + 2 <= Len(d)
    THEN [ok |-> TRUE, v |-> d[p + 1] * U8 + d[p + 2], p |-> p + 2]
    ELSE ReadFail

read_u32(d, p) ==
    IF p + 4 <= Len(d)
    THEN [ok |-> TRUE,
          v |-> ((as_i8(d[p + 1]) * U8 + d[p + 2]) * U8 + d[p + 3]) * U8 + d[p + 4],
          p |-> p + 4]
    ELSE ReadFail

----------------------------------------------------------------------------
(* class/op.rs: the opcode table of Instr::read_instr.  Entry code + 1     *)
(* gives the Instr variant the opcode byte decodes to, the layout of its   *)
(* operands and the operand embedded in the opcode itself.                 *)

OpTable == <<
    [name |-> "Nop", fmt |-> "none", imm |-> <<>>],  \* 0x00
    [name |-> "AConstNull", fmt |-> "none", imm |-> <<>>],  \* 0x01
    [name |-> "IConst", fmt |-> "none", imm |-> <<-1>>],  \* 0x02
    [name |-> "IConst", fmt |-> "none", imm |-> <<0>>],  \* 0x03
    [name |-> "IConst", fmt |-> "none", imm |-> <<1>>],  \* 0x04
    [name |-> "IConst", fmt |-> "none", imm |-> <<2>>],  \* 0x05
    [name |-> "IConst", fmt |-> "none", imm |-> <<3>>],  \* 0x06
    [name |-> "IConst", fmt |-> "none", imm |-> <<4>>],  \* 0x07
    [name |-> "IConst", fmt |-> "none", imm |-> <<5>>],  \* 0x08
    [name |-> "LConst", fmt |-> "none", imm |-> <<0>>],  \* 0x09
    [name |-> "LConst", fmt |-> "none", imm |-> <<1>>],  \* 0x0a
    [name |-> "FConst", fmt |-> "none", imm |-> <<0>>],  \* 0x0b
    [name |-> "FConst", fmt |-> "none", imm |-> <<1>>],  \* 0x0c
    [name |-> "FConst", fmt |-> "none", imm |-> <<2>>],  \* 0x0d
    [name |-> "DConst", fmt |-> "none", imm |-> <<0>>],  \* 0x0e
    [name |-> "DConst", fmt |-> "none", imm |-> <<1>>],  \* 0x0f
    [name |-> "BIPush", fmt |-> "i8", imm |-> <<>>],  \* 0x10
    [name |-> "SIPush", fmt |-> "i16", imm |-> <<>>],  \* 0x11
    [name |-> "LoadConst", fmt |-> "u8", imm |-> <<>>],  \* 0x12
    [name |-> "LoadConst", fmt |-> "u16", imm |-> <<>>],  \* 0x13
    [name |-> "LoadConst", fmt |-> "u16", imm |-> <<>>],  \* 0x14
    [name |-> "ILoad", fmt |-> "local", imm |-> <<>>],  \* 0x15
    [name |-> "LLoad", fmt |-> "local", imm |-> <<>>],  \* 0x16
    [name |-> "FLoad", fmt |-> "local", imm |-> <<>>],  \* 0x17
    [name |-> "DLoad", fmt |-> "local", imm |-> <<>>],  \* 0x18
    [name |-> "ALoad", fmt |-> "local", imm |-> <<>>],  \* 0x19
    [name |-> "ILoad", fmt |-> "none", imm |-> <<0>>],  \* 0x1a
    [name |-> "ILoad", fmt |-> "none", imm |-> <<1>>],  \* 0x1b
    [name |-> "ILoad", fmt |-> "none", imm |-> <<2>>],  \* 0x1c
    [name |-> "ILoad", fmt |-> "none", imm |-> <<3>>],  \* 0x1d
    [name |-> "LLoad", fmt |-> "none", imm |-> <<0>>],  \* 0x1e
    [name |-> "LLoad", fmt |-> "none", imm |-> <<1>>],  \* 0x1f
    [name |-> "LLoad", fmt |-> "none", imm |-> <<2>>],  \* 0x20
    [name |-> "LLoad", fmt |-> "none", imm |-> <<3>>],  \* 0x21
    [name |-> "FLoad", fmt |-> "none", imm |-> <<0>>],  \* 0x22
    [name |-> "FLoad", fmt |-> "none", imm |-> <<1>>],  \* 0x23
    [name |-> "FLoad", fmt |-> "none", imm |-> <<2>>],  \* 0x24
    [name |-> "FLoad", fmt |-> "none", imm |-> <<3>>],  \* 0x25
    [name |-> "DLoad", fmt |-> "none", imm |-> <<0>>],  \* 0x26
    [name |-> "DLoad", fmt |-> "none", imm |-> <<1>>],  \* 0x27
    [name |-> "DLoad", fmt |-> "none", imm |-> <<2>>],  \* 0x28
    [name |-> "DLoad", fmt |-> "none", imm |-> <<3>>],  \* 0x29
    [name |-> "ALoad", fmt |-> "none", imm |-> <<0>>],  \* 0x2a
    [name |-> "ALoad", fmt |-> "none", imm |-> <<1>>],  \* 0x2b
    [name |-> "ALoad", fmt |-> "none", imm |-> <<2>>],  \* 0x2c
    [name |-> "ALoad", fmt |-> "none", imm |-> <<3>>],  \* 0x2d
    [name |-> "IALoad", fmt |-> "none", imm |-> <<>>],  \* 0x2e
    [name |-> "LALoad", fmt |-> "none", imm |-> <<>>],  \* 0x2f
    [name |-> "FALoad", fmt |-> "none", imm |-> <<>>],  \* 0x30
    [name |-> "DALoad", fmt |-> "none", imm |-> <<>>],  \* 0x31
    [name |-> "AALoad", fmt |-> "none", imm |-> <<>>],  \* 0x32
    [name |-> "BALoad", fmt |-> "none", imm |-> <<>>],  \* 0x33
    [name |-> "CALoad", fmt |-> "none", imm |-> <<>>],  \* 0x34
    [name |-> "SALoad", fmt |-> "none", imm |-> <<>>],  \* 0x35
    [name |-> "IStore", fmt |-> "local", imm |-> <<>>],  \* 0x36
    [name |-> "LStore", fmt |-> "local", imm |-> <<>>],  \* 0x37
    [name |-> "FStore", fmt |-> "local", imm |-> <<>>],  \* 0x38
    [name |-> "DStore", fmt |-> "local", imm |-> <<>>],  \* 0x39
    [name |-> "AStore", fmt |-> "local", imm |-> <<>>],  \* 0x3a
    [name |-> "IStore", fmt |-> "none", imm |-> <<0>>],  \* 0x3b
    [name |-> "IStore", fmt |-> "none", imm |-> <<1>>],  \* 0x3c
    [name |-> "IStore", fmt |-> "none", imm |-> <<2>>],  \* 0x3d
    [name |-> "IStore", fmt |-> "none", imm |-> <<3>>],  \* 0x3e
    [name |-> "LStore", fmt |-> "none", imm |-> <<0>>],  \* 0x3f
    [name |-> "LStore", fmt |-> "none", imm |-> <<1>>],  \* 0x40
    [name |-> "LStore", fmt |-> "none", imm |-> <<2>>],  \* 0x41
    [name |-> "LStore", fmt |-> "none", imm |-> <<3>>],  \* 0x42
    [name |-> "FStore", fmt |-> "none", imm |-> <<0>>],  \* 0x43
    [name |-> "FStore", fmt |-> "none", imm |-> <<1>>],  \* 0x44
    [name |-> "FStore", fmt |-> "none", imm |-> <<2>>],  \* 0x45
    [name |-> "FStore", fmt |-> "none", imm |-> <<3>>],  \* 0x46
    [name |-> "DStore", fmt |-> "none", imm |-> <<0>>],  \* 0x47
    [name |-> "DStore", fmt |-> "none", imm |-> <<1>>],  \* 0x48
    [name |-> "DStore", fmt |-> "none", imm |-> <<2>>],  \* 0x49
    [name |-> "DStore", fmt |-> "none", imm |-> <<3>>],  \* 0x4a
    [name |-> "AStore", fmt |-> "none", imm |-> <<0>>],  \* 0x4b
    [name |-> "AStore", fmt |-> "none", imm |-> <<1>>],  \* 0x4c
    [name |-> "AStore", fmt |-> "none", imm |-> <<2>>],  \* 0x4d
    [name |-> "AStore", fmt |-> "none", imm |-> <<3>>],  \* 0x4e
    [name |-> "IAStore", fmt |-> "none", imm |-> <<>>],  \* 0x4f
    [name |-> "LAStore", fmt |-> "none", imm |-> <<>>],  \* 0x50
    [name |-> "FAStore", fmt |-> "none", imm |-> <<>>],  \* 0x51
    [name |-> "DAStore", fmt |-> "none", imm |-> <<>>],  \* 0x52
    [name |-> "AAStore", fmt |-> "none", imm |-> <<>>],  \* 0x53
    [name |-> "BAStore", fmt |-> "none", imm |-> <<>>],  \* 0x54
    [name |-> "CAStore", fmt |-> "none", imm |-> <<>>],  \* 0x55
    [name |-> "SAStore", fmt |-> "none", imm |-> <<>>],  \* 0x56
    [name |-> "Pop", fmt |-> "none", imm |-> <<>>],  \* 0x57
    [name |-> "Pop2", fmt |-> "none", imm |-> <<>>],  \* 0x58
    [name |-> "Dup", fmt |-> "none", imm |-> <<>>],  \* 0x59
    [name |-> "DupX1", fmt |-> "none", imm |-> <<>>],  \* 0x5a
    [name |-> "DupX2", fmt |-> "none", imm |-> <<>>],  \* 0x5b
    [name |-> "Dup2", fmt |-> "none", imm |-> <<>>],  \* 0x5c
    [name |-> "Dup2X1", fmt |-> "none", imm |-> <<>>],  \* 0x5d
    [name |-> "Dup2X2", fmt |-> "none", imm |-> <<>>],  \* 0x5e
    [name |-> "Swap", fmt |-> "none", imm |-> <<>>],  \* 0x5f
    [name |-> "IAdd", fmt |-> "none", imm |-> <<>>],  \* 0x60
    [name |-> "LAdd", fmt |-> "none", imm |-> <<>>],  \* 0x61
    [name |-> "FAdd", fmt |-> "none", imm |-> <<>>],  \* 0x62
    [name |-> "DAdd", fmt |-> "none", imm |-> <<>>],  \* 0x63
    [name |-> "ISub", fmt |-> "none", imm |-> <<>>],  \* 0x64
    [name |-> "LSub", fmt |-> "none", imm |-> <<>>],  \* 0x65
    [name |-> "FSub", fmt |-> "none", imm |-> <<>>],  \* 0x66
    [name |-> "DSub", fmt |-> "none", imm |-> <<>>],  \* 0x67
    [name |-> "IMul", fmt |-> "none", imm |-> <<>>],  \* 0x68
    [name |-> "LMul", fmt |-> "none", imm |-> <<>>],  \* 0x69
    [name |-> "FMul", fmt |-> "none", imm |-> <<>>],  \* 0x6a
    [name |-> "DMul", fmt |-> "none", imm |-> <<>>],  \* 0x6b
    [name |-> "IDiv", fmt |-> "none", imm |-> <<>>],  \* 0x6c
    [name |-> "LDiv", fmt |-> "none", imm |-> <<>>],  \* 0x6d
    [name |-> "FDiv", fmt |-> "none", imm |-> <<>>],  \* 0x6e
    [name |-> "DDiv", fmt |-> "none", imm |-> <<>>],  \* 0x6f
    [name |-> "IRem", fmt |-> "none", imm |-> <<>>],  \* 0x70
    [name |-> "LRem", fmt |-> "none", imm |-> <<>>],  \* 0x71
    [name |-> "FRem", fmt |-> "none", imm |-> <<>>],  \* 0x72
    [name |-> "DRem", fmt |-> "none", imm |-> <<>>],  \* 0x73
    [name |-> "INeg", fmt |-> "none", imm |-> <<>>],  \* 0x74
    [name |-> "LNeg", fmt |-> "none", imm |-> <<>>],  \* 0x75
    [name |-> "FNeg", fmt |-> "none", imm |-> <<>>],  \* 0x76
    [name |-> "DNeg", fmt |-> "none", imm |-> <<>>],  \* 0x77
    [name |-> "IShL", fmt |-> "none", imm |-> <<>>],  \* 0x78
    [name |-> "LShL", fmt |-> "none", imm |-> <<>>],  \* 0x79
    [name |-> "IShR", fmt |-> "none", imm |-> <<>>],  \* 0x7a
    [name |-> "LShR", fmt |-> "none", imm |-> <<>>],  \* 0x7b
    [name |-> "IUShR", fmt |-> "none", imm |-> <<>>],  \* 0x7c
    [name |-> "LUShR", fmt |-> "none", imm |-> <<>>],  \* 0x7d
    [name |-> "IAnd", fmt |-> "none", imm |-> <<>>],  \* 0x7e
    [name |-> "LAnd", fmt |-> "none", imm |-> <<>>],  \* 0x7f
    [name |-> "IOr", fmt |-> "none", imm |-> <<>>],  \* 0x80
    [name |-> "LOr", fmt |-> "none", imm |-> <<>>],  \* 0x81
    [name |-> "IXOr", fmt |-> "none", imm |-> <<>>],  \* 0x82
    [name |-> "LXOr", fmt |-> "none", imm |-> <<>>],  \* 0x83
    [name |-> "IInc", fmt |-> "iinc", imm |-> <<>>],  \* 0x84
    [name |-> "I2l", fmt |-> "none", imm |-> <<>>],  \* 0x85
    [name |-> "I2f", fmt |-> "none", imm |-> <<>>],  \* 0x86
    [name |-> "I2d", fmt |-> "none", imm |-> <<>>],  \* 0x87
    [name |-> "L2i", fmt |-> "none", imm |-> <<>>],  \* 0x88
    [name |-> "L2f", fmt |-> "none", imm |-> <<>>],  \* 0x89
    [name |-> "L2d", fmt |-> "none", imm |-> <<>>],  \* 0x8a
    [name |-> "F2i", fmt |-> "none", imm |-> <<>>],  \* 0x8b
    [name |-> "F2l", fmt |-> "none", imm |-> <<>>],  \* 0x8c
    [name |-> "F2d", fmt |-> "none", imm |-> <<>>],  \* 0x8d
    [name |-> "D2i", fmt |-> "none", imm |-> <<>>],  \* 0x8e
    [name |-> "D2l", fmt |-> "none", imm |-> <<>>],  \* 0x8f
    [name |-> "D2f", fmt |-> "none", imm |-> <<>>],  \* 0x90
    [name |-> "I2b", fmt |-> "none", imm |-> <<>>],  \* 0x91
    [name |-> "I2c", fmt |-> "none", imm |-> <<>>],  \* 0x92
    [name |-> "I2s", fmt |-> "none", imm |-> <<>>],  \* 0x93
    [name |-> "LCmp", fmt |-> "none", imm |-> <<>>],  \* 0x94
    [name |-> "FCmpL", fmt |-> "none", imm |-> <<>>],  \* 0x95
    [name |-> "FCmpG", fmt |-> "none", imm |-> <<>>],  \* 0x96
    [name |-> "DCmpL", fmt |-> "none", imm |-> <<>>],  \* 0x97
    [name |-> "DCmpG", fmt |-> "none", imm |-> <<>>],  \* 0x98
    [name |-> "IfEq", fmt |-> "br16", imm |-> <<>>],  \* 0x99
    [name |-> "IfNe", fmt |-> "br16", imm |-> <<>>],  \* 0x9a
    [name |-> "IfLt", fmt |-> "br16", imm |-> <<>>],  \* 0x9b
    [name |-> "IfGe", fmt |-> "br16", imm |-> <<>>],  \* 0x9c
    [name |-> "IfGt", fmt |-> "br16", imm |-> <<>>],  \* 0x9d
    [name |-> "IfLe", fmt |-> "br16", imm |-> <<>>],  \* 0x9e
    [name |-> "IfICmpEq", fmt |-> "br16", imm |-> <<>>],  \* 0x9f
    [name |-> "IfICmpNe", fmt |-> "br16", imm |-> <<>>],  \* 0xa0
    [name |-> "IfICmpLt", fmt |-> "br16", imm |-> <<>>],  \* 0xa1
    [name |-> "IfICmpGe", fmt |-> "br16", imm |-> <<>>],  \* 0xa2
    [name |-> "IfICmpGt", fmt |-> "br16", imm |-> <<>>],  \* 0xa3
    [name |-> "IfICmpLe", fmt |-> "br16", imm |-> <<>>],  \* 0xa4
    [name |-> "IfACmpEq", fmt |-> "br16", imm |-> <<>>],  \* 0xa5
    [name |-> "IfACmpNe", fmt |-> "br16", imm |-> <<>>],  \* 0xa6
    [name |-> "Goto", fmt |-> "br16", imm |-> <<>>],  \* 0xa7
    [name |-> "JSr", fmt |-> "br16", imm |-> <<>>],  \* 0xa8
    [name |-> "Ret", fmt |-> "local", imm |-> <<>>],  \* 0xa9
    [name |-> "TableSwitch", fmt |-> "tableswitch", imm |-> <<>>],  \* 0xaa
    [name |-> "LookupSwitch", fmt |-> "lookupswitch", imm |-> <<>>],  \* 0xab
    [name |-> "IReturn", fmt |-> "none", imm |-> <<>>],  \* 0xac
    [name |-> "LReturn", fmt |-> "none", imm |-> <<>>],  \* 0xad
    [name |-> "FReturn", fmt |-> "none", imm |-> <<>>],  \* 0xae
    [name |-> "DReturn", fmt |-> "none", imm |-> <<>>],  \* 0xaf
    [name |-> "AReturn", fmt |-> "none", imm |-> <<>>],  \* 0xb0
    [name |-> "Return", fmt |-> "none", imm |-> <<>>],  \* 0xb1
    [name |-> "GetStatic", fmt |-> "u16", imm |-> <<>>],  \* 0xb2
    [name |-> "PutStatic", fmt |-> "u16", imm |-> <<>>],  \* 0xb3
    [name |-> "GetField", fmt |-> "u16", imm |-> <<>>],  \* 0xb4
    [name |-> "PutField", fmt |-> "u16", imm |-> <<>>],  \* 0xb5
    [name |-> "InvokeVirtual", fmt |-> "u16", imm |-> <<>>],  \* 0xb6
    [name |-> "InvokeSpecial", fmt |-> "u16", imm |-> <<>>],  \* 0xb7
    [name |-> "InvokeStatic", fmt |-> "u16", imm |-> <<>>],  \* 0xb8
    [name |-> "InvokeInterface", fmt |-> "u16pad", imm |-> <<>>],  \* 0xb9
    [name |-> "InvokeDynamic", fmt |-> "u16pad", imm |-> <<>>],  \* 0xba
    [name |-> "New", fmt |-> "u16", imm |-> <<>>],  \* 0xbb
    [name |-> "NewArray", fmt |-> "newarray", imm |-> <<>>],  \* 0xbc
    [name |-> "ANewArray", fmt |-> "u16", imm |-> <<>>],  \* 0xbd
    [name |-> "ArrayLength", fmt |-> "none", imm |-> <<>>],  \* 0xbe
    [name |-> "AThrow", fmt |-> "none", imm |-> <<>>],  \* 0xbf
    [name |-> "CheckCast", fmt |-> "u16", imm |-> <<>>],  \* 0xc0
    [name |-> "InstanceOf", fmt |-> "u16", imm |-> <<>>],  \* 0xc1
    [name |-> "MonitorEnter", fmt |-> "none", imm |-> <<>>],  \* 0xc2
    [name |-> "MonitorExit", fmt |-> "none", imm |-> <<>>],  \* 0xc3
    [name |-> "Wide", fmt |-> "wide", imm |-> <<>>],  \* 0xc4
    [name |-> "MultiANewArray", fmt |-> "multianewarray", imm |-> <<>>],  \* 0xc5
    [name |-> "IfNull", fmt |-> "br16", imm |-> <<>>],  \* 0xc6
    [name |-> "IfNonNull", fmt |-> "br16", imm |-> <<>>],  \* 0xc7
    [name |-> "Goto", fmt |-> "br32", imm |-> <<>>],  \* 0xc8
    [name |-> "JSr", fmt |-> "br32", imm |-> <<>>]   \* 0xc9
>>

\* the last opcode byte read_instr has an arm for; every larger byte falls to
\* the `_ => UnknownInstruction` arm
LastOpcode == Len(OpTable) - 1

\* an Instr value: the variant's name and its fields.  args holds the scalar
\* fields in declaration order, keys the LookupSwitch match keys, offsets the
\* resolved case targets of TableSwitch / LookupSwitch
MkInstr(name, args, keys, offsets) ==
    [name |-> name, args |-> args, keys |-> keys, offsets |-> offsets]

Simple(name, args) == MkInstr(name, args, <<>>, <<>>)

\* results of read_instr: Ok(instr) with the cursor after it, or Err(..).
\* ovf records that a `pos + offset` addition left the i32 range, which
\* panics in a build with overflow checks and wraps in one without.
Ok(instr, p, ovf) == [st |-> "ok", instr |-> instr, p |-> p, code |-> 0, ovf |-> ovf]
Err(st, code, ovf) ==
    [st |-> st, instr |-> Simple("Nop", <<>>), p |-> 0, code |-> code, ovf |-> ovf]

\* `pos + (x as i32)` leaves the i32 range (pos >= 0)
add_overflows(pos, off) == off > I32Max - pos

\* op.rs:361 / op.rs:380: the padding skipped after a switch opcode, from
\* the cursor position p just after the opcode byte (u64 arithmetic, p >= 1)
switch_pad(p) == (1 + ((p - 1) \div 4)) * 4 - p

\* op.rs:208: the width of a local-variable index operand
local_width(wide) == IF wide THEN 2 ELSE 1

read_local(d, p, wide) ==
    IF local_width(wide) = 2 THEN read_u16(d, p) ELSE read_u8(d, p)

\* op.rs:343: a 16-bit branch operand resolved against the instruction position
branch16_relative(pos, raw) == as_u16(as_i16(raw))
branch16(pos, raw) == as_u16(pos + as_i16(raw))

\* op.rs:448: a 32-bit branch operand of GOTO_W / JSR_W, truncated to u16
branch32(pos, raw) == as_u16(wrapping_add(pos, raw))

\* op.rs:365: a 32-bit switch operand resolved against the instruction position
switch_target(pos, raw) == wrapping_add(pos, raw)

\* the 4-byte big-endian word at cursor p (p + 4 <= Len(d))
word_at(d, p) == read_u32(d, p).v

\* more items than any code array of the model holds
TooMany(d) == Len(d) + 1

\* op.rs:369: the length of `low..=high`, a range of u32 values that is
\* empty when low > high as unsigned numbers; cut off at TooMany
table_count(d, low, high) ==
    IF ~u32_le(low, high) THEN 0
    ELSE IF (low >= 0) <=> (high >= 0)
         THEN Min(high - low, TooMany(d) - 1) + 1
         ELSE TooMany(d)

\* op.rs:387: the length of `0..count` for a u32 count; cut off at TooMany
lookup_count(d, count) ==
    IF count < 0 THEN TooMany(d) ELSE Min(count, TooMany(d))

\* op.rs:368-371 / op.rs:386-392: n items of `stride` bytes from cursor p; the
\* target word of item k sits at byte `at` of the item.  The reads stop at
\* the first short read.
read_targets(d, p, n, stride, at, pos) ==
    LET avail == Min(n, (Len(d) - p) \div stride)
        raw(k) == word_at(d, p + stride * (k - 1) + at)
    IN  [ok |-> avail = n,
         v |-> [k \in 1..avail |-> switch_target(pos, raw(k))],
         keys |-> [k \in 1..avail |-> word_at(d, p + stride * (k - 1))],
         ovf |-> \E k \in 1..avail : add_overflows(pos, raw(k)),
         p |-> p + stride * n]

\* op.rs:360-378
read_tableswitch(d, p, pos) ==
    LET q == p + switch_pad(p)
        df == read_u32(d, q)
        lo == read_u32(d, q + 4)
        hi == read_u32(d, q + 8)
        dovf == df.ok /\ add_overflows(pos, df.v)
    IN  IF ~(df.ok /\ lo.ok /\ hi.ok) THEN Err("io", 0, dovf)
        ELSE LET t == read_targets(d, q + 12, table_count(d, lo.v, hi.v), 4, 0, pos)
             IN  IF ~t.ok THEN Err("io", 0, dovf \/ t.ovf)
                 ELSE Ok(MkInstr("TableSwitch",
                                 <<switch_target(pos, df.v), lo.v, hi.v>>,
                                 <<>>, t.v),
                         t.p, dovf \/ t.ovf)

\* op.rs:379-394
read_lookupswitch(d, p, pos) ==
    LET q == p + switch_pad(p)
        df == read_u32(d, q)
        cnt == read_u32(d, q + 4)
        dovf == df.ok /\ add_overflows(pos, df.v)
    IN  IF ~(df.ok /\ cnt.ok) THEN Err("io", 0, dovf)
        ELSE LET t == read_targets(d, q + 8, lookup_count(d, cnt.v), 8, 4, pos)
             IN  IF ~t.ok THEN Err("io", 0, dovf \/ t.ovf)
                 ELSE Ok(MkInstr("LookupSwitch",
                                 <<switch_target(pos, df.v)>>, t.keys, t.v),
                         t.p, dovf \/ t.ovf)

\* op.rs:419-433: the NEWARRAY primitive-type tags
ArrayTypes == 4..11

\* op.rs:185-452: Instr::read_instr(i, wide, pos) with the cursor at p0
RECURSIVE read_instr(_, _, _, _)
read_instr(d, p0, wide, pos) ==
    LET c == read_u8(d, p0) IN
    IF ~c.ok THEN Err("io", 0, FALSE)
    ELSE IF c.v > LastOpcode THEN Err("UnknownInstruction", c.v, FALSE)
    ELSE
    LET e == OpTable[c.v + 1]
        p == c.p
        r8 == read_u8(d, p)
        r16 == read_u16(d, p)
        r32 == read_u32(d, p)
        rl == read_local(d, p, wide)
    IN  CASE e.fmt = "none" -> Ok(Simple(e.name, e.imm), p, FALSE)
          [] e.fmt = "i8" ->
                IF r8.ok THEN Ok(Simple(e.name, <<as_i8(r8.v)>>), r8.p, FALSE)
                ELSE Err("io", 0, FALSE)
          [] e.fmt = "u8" ->
                IF r8.ok THEN Ok(Simple(e.name, <<r8.v>>), r8.p, FALSE)
                ELSE Err("io", 0, FALSE)
          [] e.fmt = "i16" ->
                IF r16.ok THEN Ok(Simple(e.name, <<as_i16(r16.v)>>), r16.p, FALSE)
                ELSE Err("io", 0, FALSE)
          [] e.fmt = "u16" ->
                IF r16.ok THEN Ok(Simple(e.name, <<r16.v>>), r16.p, FALSE)
                ELSE Err("io", 0, FALSE)
          [] e.fmt = "local" ->
                IF rl.ok THEN Ok(Simple(e.name, <<rl.v>>), rl.p, FALSE)
                ELSE Err("io", 0, FALSE)
          [] e.fmt = "iinc" ->
                LET v == IF rl.ok THEN read_local(d, rl.p, wide) ELSE ReadFail
                IN  IF v.ok
                    THEN Ok(Simple(e.name,
                                   <<rl.v, IF wide THEN as_i16(v.v) ELSE as_i8(v.v)>>),
                            v.p, FALSE)
                    ELSE Err("io", 0, FALSE)
          [] e.fmt = "br16" ->
                IF r16.ok THEN Ok(Simple(e.name, <<branch16(pos, r16.v)>>), r16.p, FALSE)
                ELSE Err("io", 0, FALSE)
          [] e.fmt = "br32" ->
                IF r32.ok
                THEN Ok(Simple(e.name, <<branch32(pos, r32.v)>>), r32.p,
                        add_overflows(pos, r32.v))
                ELSE Err("io", 0, FALSE)
          [] e.fmt = "tableswitch" -> read_tableswitch(d, p, pos)
          [] e.fmt = "lookupswitch" -> read_lookupswitch(d, p, pos)
          [] e.fmt = "u16pad" ->
                LET pad == IF r16.ok THEN read_u16(d, r16.p) ELSE ReadFail
                IN  IF pad.ok THEN Ok(Simple(e.name, <<r16.v>>), pad.p, FALSE)
                    ELSE Err("io", 0, FALSE)
          [] e.fmt = "newarray" ->
                IF ~r8.ok THEN Err("io", 0, FALSE)
                ELSE IF r8.v \in ArrayTypes
                     THEN Ok(Simple(e.name, <<r8.v>>), r8.p, FALSE)
                     ELSE Err("UnknownArrayType", r8.v, FALSE)
          [] e.fmt = "wide" -> read_instr(d, p, TRUE, pos)
          [] e.fmt = "multianewarray" ->
                LET dims == IF r16.ok THEN read_u8(d, r16.p) ELSE ReadFail
                IN  IF dims.ok THEN Ok(Simple(e.name, <<r16.v, dims.v>>), dims.p, FALSE)
                    ELSE Err("io", 0, FALSE)

----------------------------------------------------------------------------
(* decomp/ast.rs (and, line for line, decomp/ops.rs): the control-flow     *)
(* graph.  An InstrSet entry e is the pair <<pos, instr>>: e[1] is e.0 and *)
(* e[2] is e.1.                                                            *)

\* Option::None of get_index_for_pos
None == -1

\* ast.rs:835-842: the 0-based index of the instruction recorded at pos
get_index_for_pos(ins, pos) ==
    LET hits == {i \in 1..Len(ins) : ins[i][1] = pos}
    IN  IF hits = {} THEN None
        ELSE (CHOOSE i \in hits : \A j \in hits : i <= j) - 1

\* ast.rs:878-889 and 925-936: the variants matched as conditional branches
CondBranch ==
    {"IfNe", "IfEq", "IfLe", "IfGe", "IfGt", "IfLt",
     "IfICmpEq", "IfICmpNe", "IfICmpGt", "IfICmpGe", "IfICmpLt", "IfICmpLe"}

\* ast.rs:944-949: the variants matched as returns
Returns == {"Return", "AReturn", "IReturn", "LReturn", "DReturn", "FReturn"}

\* ast.rs:876-901: what instruction i (1-based) pushes on jump_indices;
\* `unwrap` panics when the target is not a recorded position
jumps_of(ins, i) ==
    LET instr == ins[i][2]
        t == get_index_for_pos(ins, instr.args[1])
    IN  IF instr.name \in CondBranch
        THEN [panic |-> t = None, v |-> <<t, i>>]    \* false_pos = (i - 1) + 1
        ELSE IF instr.name = "Goto"
        THEN [panic |-> t = None, v |-> <<t>>]
        ELSE [panic |-> FALSE, v |-> <<>>]

RECURSIVE jump_indices_from(_, _)
jump_indices_from(ins, i) ==
    IF i > Len(ins) THEN [panic |-> FALSE, v |-> <<>>]
    ELSE LET j == jumps_of(ins, i)
             rest == jump_indices_from(ins, i + 1)
         IN  IF j.panic THEN [panic |-> TRUE, v |-> <<>>]
             ELSE [panic |-> rest.panic, v |-> j.v \o rest.v]

jump_indices(ins) == jump_indices_from(ins, 1)

RECURSIVE sorted_seq(_)
sorted_seq(S) ==
    IF S = {} THEN <<>>
    ELSE LET m == CHOOSE x \in S : \A y \in S : x <= y
         IN  <<m>> \o sorted_seq(S \ {m})

\* ast.rs:846-847: sort() then dedup()
sort_dedup(s) == sorted_seq({s[i] : i \in DOMAIN s})

\* Vec::remove(i) for a 0-based i < len
remove_at(s, i) == SubSeq(s, 1, i) \o SubSeq(s, i + 2, Len(s))

Panicked == [panic |-> TRUE, out |-> <<>>]

\* ast.rs:860-869: the loop over split_indices, from its 1-based step i
RECURSIVE split_loop(_, _, _, _)
split_loop(split_vector, s, i, output) ==
    IF i > Len(s) THEN [panic |-> FALSE, out |-> output]
    ELSE LET at == s[i] - (IF i = 1 THEN 0 ELSE s[i - 1])
         IN  IF at > Len(split_vector) THEN Panicked    \* split_at: mid > len
             ELSE LET first == SubSeq(split_vector, 1, at)
                      second == SubSeq(split_vector, at + 1, Len(split_vector))
                  IN  split_loop(second, s, i + 1,
                                 IF i = Len(s) THEN output \o <<first, second>>
                                 ELSE Append(output, first))

\* ast.rs:844-872
split_at_multiple(vec, split_indices) ==
    LET s0 == sort_dedup(split_indices)
        s1 == IF s0[1] = 0 THEN Tail(s0) ELSE s0
    IN  IF Len(s0) = 0 THEN [panic |-> FALSE, out |-> <<vec>>]
        ELSE IF Len(s1) = 0 THEN Panicked               \* last().unwrap() on None
        ELSE IF s1[Len(s1)] = Len(vec)
        THEN IF Len(vec) - 1 >= Len(s1) THEN Panicked   \* remove: index out of bounds
             ELSE split_loop(vec, remove_at(s1, Len(vec) - 1), 1, <<>>)
        ELSE split_loop(vec, s1, 1, <<>>)

\* ast.rs:919-922: the position of the first instruction after last_pos
next_pos(ins, last_pos) ==
    LET later == {i \in 1..Len(ins) : ins[i][1] > last_pos}
    IN  IF later = {} THEN None
        ELSE ins[CHOOSE i \in later : \A j \in later : i <= j][1]

\* ast.rs:917-955: the successors of a block, from its last instruction
block_branches(ins, block_instrs) ==
    LET last == block_instrs[Len(block_instrs)]
        nxt == next_pos(ins, last[1])
    IN  IF last[2].name \in CondBranch
        THEN [panic |-> nxt = None, v |-> <<last[2].args[1], nxt>>]
        ELSE IF last[2].name = "Goto"
        THEN [panic |-> FALSE, v |-> <<last[2].args[1]>>]
        ELSE IF last[2].name \in Returns
        THEN [panic |-> FALSE, v |-> <<>>]
        ELSE [panic |-> nxt = None, v |-> <<nxt>>]

NoBlocks == [k \in {} |-> 0]
CfgNone == [state |-> "none", blocks |-> NoBlocks]
CfgPanic == [state |-> "panic", blocks |-> NoBlocks]

\* ast.rs:874-957
gen_control_flow_graph(ins) ==
    LET ji == jump_indices(ins)
        raw == split_at_multiple(ins, ji.v)
        n == Len(raw.out)
        entries == {raw.out[j][1][1] : j \in 1..n}
        \* HashMap collect: a later slice with the same key replaces an earlier
        slice(k) == raw.out[CHOOSE j \in 1..n :
                               /\ raw.out[j][1][1] = k
                               /\ \A l \in 1..n : raw.out[l][1][1] = k => l <= j]
    IN  IF ji.panic THEN CfgPanic
        ELSE IF raw.panic THEN CfgPanic
        ELSE IF \E j \in 1..n : Len(raw.out[j]) = 0 THEN CfgPanic    \* el[0]
        ELSE IF \E k \in entries : block_branches(ins, slice(k)).panic THEN CfgPanic
        ELSE [state |-> "ok",
              blocks |-> [k \in entries |->
                            [instructions |-> slice(k),
                             branches |-> block_branches(ins, slice(k)).v]]]

----------------------------------------------------------------------------
(* class/constant.rs: ConstantPool::read.  A constant on the wire is       *)
(* modelled by its tag byte; the constant stored in the pool records the   *)
(* tag and the ordinal of the constant on the wire.                        *)

\* constant.rs:188-206: the tag bytes ConstantTag::try_from accepts
ConstantTags == {1} \cup (3..12) \cup (15..20)

\* constant.rs:64-67: Long (5) and Double (6) consume two indexes
index_step_single(tag) == 1
index_step(tag) == IF tag \in {5, 6} THEN 2 ELSE 1

EmptyPool == [k \in {} |-> 0]

\* HashMap::insert
insert(m, k, v) == [x \in DOMAIN m \cup {k} |-> IF x = k THEN v ELSE m[x]]

\* constant.rs:60-68: one iteration of `while index < size`
read_constant ==
    /\ poolst = "reading"
    /\ index < size
    /\ IF nread = Len(wire)
       THEN /\ poolst' = "io"                      \* ConstantValue::read: short read
            /\ inner' = EmptyPool
            /\ UNCHANGED <<index, nread>>
       ELSE LET tag == wire[nread + 1] IN
            IF tag \notin ConstantTags
            THEN /\ poolst' = "UnknownConstantTag"
                 /\ inner' = EmptyPool
                 /\ UNCHANGED <<index, nread>>
            ELSE \E checked \in (IF index + index_step(tag) >= U16
                                 THEN BOOLEAN ELSE {FALSE}) :
                    IF checked
                    THEN /\ poolst' = "panic"      \* u16 `index +=` overflow
                         /\ inner' = EmptyPool
                         /\ UNCHANGED <<index, nread>>
                    ELSE /\ inner' = insert(inner, index,
                                            [tag |-> tag, ord |-> nread + 1])
                         /\ index' = as_u16(index + index_step(tag))
                         /\ nread' = nread + 1
                         /\ UNCHANGED poolst
    /\ UNCHANGED <<wire, size>>
    /\ UNCHANGED <<decodeVars, liftVars, textVars, accessVars, classVars, splitVars>>

\* constant.rs:60, 69: the loop condition fails and the pool is returned
read_done ==
    /\ poolst = "reading"
    /\ ~(index < size)
    /\ poolst' = "ok"
    /\ UNCHANGED <<wire, size, index, nread, inner>>
    /\ UNCHANGED <<decodeVars, liftVars, textVars, accessVars, classVars, splitVars>>

----------------------------------------------------------------------------
(* class/class.rs and class/descriptor.rs: ClassPath and Descriptor.  A    *)
(* &str / String is the sequence of its characters, each a one-character   *)
(* string: "a/C" is <<"a", "/", "C">>.                                     *)

\* str::find(c): the 1-based index of the first c in s, 0 when there is none
find(s, c) ==
    IF \E i \in 1..Len(s) : s[i] = c
    THEN CHOOSE i \in 1..Len(s) : s[i] = c /\ \A j \in 1..(i - 1) : s[j] # c
    ELSE 0

\* str::rfind(c): the 1-based index of the last c in s, 0 when there is none
rfind(s, c) ==
    IF \E i \in 1..Len(s) : s[i] = c
    THEN CHOOSE i \in 1..Len(s) : s[i] = c /\ \A j \in (i + 1)..Len(s) : s[j] # c
    ELSE 0

\* str::split(c).collect(): always at least one piece
RECURSIVE split(_, _)
split(s, c) ==
    LET i == find(s, c) IN
    IF i = 0 THEN <<s>>
    ELSE <<SubSeq(s, 1, i - 1)>> \o split(SubSeq(s, i + 1, Len(s)), c)

\* [String]::join(sep)
RECURSIVE join(_, _)
join(parts, sep) ==
    IF parts = <<>> THEN <<>>
    ELSE IF Len(parts) = 1 THEN parts[1]
    ELSE parts[1] \o sep \o join(Tail(parts), sep)

\* Vec::remove(len - 1) leaves the front of the vector
front(s) == SubSeq(s, 1, Len(s) - 1)

\* class.rs:140-154: ClassPath::from
ClassPath_from(value) ==
    LET package == split(value, "/")
        class == package[Len(package)]
        outer_classes == split(class, "$")
    IN  [name |-> outer_classes[Len(outer_classes)],
         package |-> front(package),
         outer_classes |-> front(outer_classes)]

\* class.rs:158: ClassPath::package_str
package_str(cp) == join(cp.package, <<".">>)

\* class.rs:181-192: ClassPath::internal_path
internal_path(cp) ==
    LET out == package_str(cp)
        out1 == IF out # <<>> THEN out \o <<"/">> ELSE out
        out2 == IF cp.outer_classes # <<>>
                THEN out1 \o join(cp.outer_classes, <<"$">>) \o <<"$">>
                ELSE out1
    IN  out2 \o cp.name

\* a ClassPath with nothing in it, the `path` of a Descriptor that has none
NoPath == [name |-> <<>>, package |-> <<>>, outer_classes |-> <<>>]

\* descriptor.rs:20-34: a Descriptor.  kind is the variant; path the ClassPath
\* of Class; dimensions that of Array; kids the boxed descriptor of Array or
\* the parameters followed by the return type of Method; raw the String of
\* Unknown.  kind "Panic" stands for a parse that panicked.
Desc(kind, path, dimensions, kids, raw) ==
    [kind |-> kind, path |-> path, dimensions |-> dimensions, kids |-> kids,
     raw |-> raw]

Primitive(kind) == Desc(kind, NoPath, 0, <<>>, <<>>)
DescPanic == Primitive("Panic")

\* descriptor.rs:116-124 and 69-77: the single-character descriptors
PrimitiveTags ==
    [B |-> "Byte", C |-> "Char", D |-> "Double", F |-> "Float", I |-> "Int",
     J |-> "Long", V |-> "Void", S |-> "Short", Z |-> "Boolean"]

PrimitiveKinds == {PrimitiveTags[t] : t \in DOMAIN PrimitiveTags}

tag_of(kind) == CHOOSE t \in DOMAIN PrimitiveTags : PrimitiveTags[t] = kind

\* str::trim_start_matches("[")
RECURSIVE trim_start_matches(_)
trim_start_matches(s) ==
    IF s # <<>> /\ s[1] = "[" THEN trim_start_matches(Tail(s)) ELSE s

\* descriptor.rs:46-49: Regex ([BCDFIJSZV]|(L.*;)|(\[.*)) with find_iter: the
\* leftmost match at or after each position, `.*` greedy; the result is the
\* sequence of matched substrings
RECURSIVE find_iter(_)
find_iter(s) ==
    IF s = <<>> THEN <<>>
    ELSE IF s[1] \in DOMAIN PrimitiveTags
         THEN <<SubSeq(s, 1, 1)>> \o find_iter(Tail(s))
    ELSE IF s[1] = "L" /\ rfind(Tail(s), ";") # 0
         THEN LET e == rfind(Tail(s), ";") + 1 IN
              <<SubSeq(s, 1, e)>> \o find_iter(SubSeq(s, e + 1, Len(s)))
    ELSE IF s[1] = "[" THEN <<s>>
    ELSE find_iter(Tail(s))

RECURSIVE Descriptor_parse(_)
RECURSIVE parse_all(_)

\* descriptor.rs:45-50: Descriptor::parse_all
parse_all(value) ==
    LET ms == find_iter(value) IN
    [i \in 1..Len(ms) |-> Descriptor_parse(ms[i])]

\* descriptor.rs:114-161: Descriptor::parse
Descriptor_parse(value) ==
    IF Len(value) = 1 /\ value[1] \in DOMAIN PrimitiveTags
    THEN Primitive(PrimitiveTags[value[1]])
    ELSE IF value # <<>> /\ value[1] = "L"
    THEN \* split_at(len - 1).0 then split_at(1).1; the second split is out
         \* of bounds when value is "L" alone
         IF Len(value) = 1 THEN DescPanic
         ELSE Desc("Class", ClassPath_from(SubSeq(value, 2, Len(value) - 1)),
                   0, <<>>, <<>>)
    ELSE IF value # <<>> /\ value[1] = "["
    THEN LET name == trim_start_matches(value)
             inner_desc == Descriptor_parse(name)
         IN  IF inner_desc.kind = "Panic" THEN DescPanic
             ELSE Desc("Array", NoPath, (Len(value) - Len(name)) % U8,
                       <<inner_desc>>, <<>>)
    ELSE IF value # <<>> /\ value[1] = "("
    THEN LET end == rfind(value, ")") IN
         IF end = 0 THEN Desc("Unknown", NoPath, 0, <<>>, value)
         ELSE LET parameters == IF end - 1 # 1
                                THEN parse_all(SubSeq(value, 2, end - 1))
                                ELSE <<>>
                  return_type == Descriptor_parse(SubSeq(value, end + 1, Len(value)))
              IN  IF \/ return_type.kind = "Panic"
                     \/ \E i \in 1..Len(parameters) : parameters[i].kind = "Panic"
                  THEN DescPanic
                  ELSE Desc("Method", NoPath, 0, Append(parameters, return_type), <<>>)
    ELSE Desc("Unknown", NoPath, 0, <<>>, value)

\* MethodDescriptor.parameters and .return_type of a Method descriptor
parameters_of(d) == front(d.kids)
return_type_of(d) == d.kids[Len(d.kids)]

\* str::repeat
RECURSIVE repeat(_, _)
repeat(s, n) == IF n = 0 THEN <<>> ELSE s \o repeat(s, n - 1)

\* descriptor.rs:67: the text put before the String of an Unknown
UnknownPrefix ==
    <<"/", "*", " ", "u", "n", "k", "n", "o", "w", "n", " ", "t", "y", "p", "e",
      " ", "*", "/", " ">>

\* descriptor.rs:52-81: Descriptor::to_internal_java
RECURSIVE to_internal_java(_)
to_internal_java(d) ==
    CASE d.kind = "Class" -> <<"L">> \o internal_path(d.path) \o <<";">>
      [] d.kind = "Array" ->
            repeat(<<"[">>, d.dimensions) \o to_internal_java(d.kids[1])
      [] d.kind = "Method" ->
            LET ps == parameters_of(d) IN
            <<"(">> \o join([i \in 1..Len(ps) |-> to_internal_java(ps[i])], <<>>)
                    \o <<")">> \o to_internal_java(return_type_of(d))
      [] d.kind = "Unknown" -> UnknownPrefix \o d.raw
      [] OTHER -> <<tag_of(d.kind)>>

----------------------------------------------------------------------------
(* class/constant.rs: the lookups of a ConstantPool that was read.  A      *)
(* Constant is [tag, a, b, utf8]: a and b are the indices or the number it *)
(* holds (0 when it has none), utf8 the String of a Utf8.                  *)

Constant(tag, a, b) == [tag |-> tag, a |-> a, b |-> b, utf8 |-> <<>>]
Utf8(s) == [tag |-> "Utf8", a |-> 0, b |-> 0, utf8 |-> s]

\* results of the lookups: Ok(v) or Err(ConstantError::kind(index))
Found(v) == [ok |-> TRUE, v |-> v, kind |-> "", n |-> 0]
NotFound(kind, n) == [ok |-> FALSE, v |-> 0, kind |-> kind, n |-> n]

\* constant.rs:101-109: ConstantPool::get_utf8
get_utf8(pool, i) ==
    IF i \notin DOMAIN pool THEN NotFound("NotFound", i)
    ELSE IF pool[i].tag = "Utf8" THEN Found(pool[i].utf8)
    ELSE NotFound("ExpectedUtf8", i)

\* constant.rs:88-99: ConstantPool::get_class_path_required
get_class_path_required(pool, i) ==
    IF i \notin DOMAIN pool \/ pool[i].tag # "Class"
    THEN NotFound("InvalidClassReference", i)
    ELSE LET u == get_utf8(pool, pool[i].a) IN
         IF u.ok THEN Found(ClassPath_from(u.v))
         ELSE NotFound("InvalidClassReference", i)

\* constant.rs:130-141: ConstantPool::get_name_and_type
get_name_and_type(pool, i) ==
    IF i \notin DOMAIN pool THEN NotFound("NotFound", i)
    ELSE IF pool[i].tag # "NameAndType" THEN NotFound("ExpectedMethodRef", i)
    ELSE LET name == get_utf8(pool, pool[i].a)
             desc == get_utf8(pool, pool[i].b)
         IN  IF ~name.ok THEN name
             ELSE IF ~desc.ok THEN desc
             ELSE Found([name |-> name.v, descriptor |-> Descriptor_parse(desc.v)])

\* constant.rs:111-128: ConstantPool::get_member_ref
get_member_ref(pool, i) ==
    IF i \notin DOMAIN pool THEN NotFound("NotFound", i)
    ELSE IF pool[i].tag \notin {"MethodRef", "FieldRef", "InterfaceMethodRef"}
    THEN NotFound("ExpectedMethodRef", i)
    ELSE LET class == get_class_path_required(pool, pool[i].a)
             name_and_type == get_name_and_type(pool, pool[i].b)
         IN  IF ~class.ok THEN class
             ELSE IF ~name_and_type.ok THEN name_and_type
             ELSE Found([class |-> class.v, name_and_type |-> name_and_type.v])

----------------------------------------------------------------------------
(* decomp/ast.rs: Stack and Block::decompile.  An AST node is              *)
(* [op, nums, ty, kids]: op the variant, nums its numeric fields (a member *)
(* or class reference is the pool index it was resolved from), ty its      *)
(* VarType or ComparisonMode, kids its boxed or listed sub-expressions in  *)
(* field order.  stack.values is a sequence whose last element is the top. *)

Node(op, nums, ty, kids) == [op |-> op, nums |-> nums, ty |-> ty, kids |-> kids]
Leaf(op, nums) == Node(op, nums, "", <<>>)

\* outcomes of one match arm: the new stack and statements, an Err that `?`
\* returns, a panic, or (st = "underflow") a usize subtraction below zero
\* whose result is only handed to Vec::get, which panics in a build with
\* overflow checks and returns Err(err) in one without
NoErr == [kind |-> "", nums |-> <<>>]
Lifted(stk, stmts) == [st |-> "ok", err |-> NoErr, stack |-> stk, statements |-> stmts]
LiftErr(kind, nums) ==
    [st |-> "err", err |-> [kind |-> kind, nums |-> nums], stack |-> <<>>,
     statements |-> <<>>]
LiftPanic == [st |-> "panic", err |-> NoErr, stack |-> <<>>, statements |-> <<>>]
LiftUnderflow(kind, nums) ==
    [st |-> "underflow", err |-> [kind |-> kind, nums |-> nums], stack |-> <<>>,
     statements |-> <<>>]
ConstErr(r) == LiftErr(r.kind, <<r.n>>)

\* the i-th value from the top, and the stack without its k top values
top(stk, i) == stk[Len(stk) - i + 1]
drop(stk, k) == SubSeq(stk, 1, Len(stk) - k)

\* Vec::insert(i, x), i counted from 0
insert_at(s, i, x) == SubSeq(s, 1, i) \o <<x>> \o SubSeq(s, i + 1, Len(s))

\* Vec::reverse
reverse(s) == [i \in 1..Len(s) |-> s[Len(s) - i + 1]]

\* ast.rs:76-82: Stack::empty
empty_unchecked(values) == NoErr
empty(values) ==
    IF values # <<>> THEN [kind |-> "Remaining", nums |-> <<Len(values)>>] ELSE NoErr

\* ast.rs:84-91: Stack::prim_cast
prim_cast(stk, stmts, primitive) ==
    IF stk = <<>> THEN LiftErr("Empty", <<>>)
    ELSE Lifted(Append(drop(stk, 1), Node("PrimitiveCast", <<>>, primitive, <<top(stk, 1)>>)),
                stmts)

\* ast.rs:93-101: Stack::swap
swap(stk, stmts) ==
    IF Len(stk) >= 2
    THEN Lifted(drop(stk, 2) \o <<top(stk, 1), top(stk, 2)>>, stmts)
    ELSE LiftErr("NotEnough", <<2, Len(stk)>>)

\* ast.rs:103-112: Stack::pop2
pop2(stk, stmts) ==
    IF stk = <<>> THEN LiftErr("Empty", <<>>)
    ELSE IF top(stk, 1).op \in {"DoubleConstant", "LongConstant"}
    THEN Lifted(drop(stk, 1), stmts)
    ELSE IF Len(stk) < 2 THEN LiftErr("Empty", <<>>)
    ELSE Lifted(drop(stk, 2), stmts)

\* the arms `let left = pop_boxed()?; let right = pop_boxed()?;
\* push(AST::op(left, right))`: left is the top of the stack
push_binary(stk, stmts, op, mode) ==
    IF Len(stk) < 2 THEN LiftErr("Empty", <<>>)
    ELSE Lifted(Append(drop(stk, 2), Node(op, <<>>, mode, <<top(stk, 1), top(stk, 2)>>)),
                stmts)

\* the arms that pop two values the same way and push a statement
state_binary(stk, stmts, op, nums) ==
    IF Len(stk) < 2 THEN LiftErr("Empty", <<>>)
    ELSE Lifted(drop(stk, 2),
                Append(stmts, Node(op, nums, "", <<top(stk, 1), top(stk, 2)>>)))

\* the arms that pop one value and push an expression holding it
push_unary(stk, stmts, op, nums) ==
    IF stk = <<>> THEN LiftErr("Empty", <<>>)
    ELSE Lifted(Append(drop(stk, 1), Node(op, nums, "", <<top(stk, 1)>>)), stmts)

\* the arms that pop one value and push a statement holding it
state_unary(stk, stmts, op, nums) ==
    IF stk = <<>> THEN LiftErr("Empty", <<>>)
    ELSE Lifted(drop(stk, 1), Append(stmts, Node(op, nums, "", <<top(stk, 1)>>)))

\* the arms that only push a value
push_leaf(stk, stmts, node) == Lifted(Append(stk, node), stmts)

\* ast.rs:134-172: the Invoke arms; instance is TRUE for InvokeSpecial,
\* InvokeInterface and InvokeVirtual, which pop the receiver after the args
invoke(pool, stk, stmts, i, instance) ==
    LET member == get_member_ref(pool, i) IN
    IF ~member.ok THEN ConstErr(member)
    ELSE LET descriptor == member.v.name_and_type.descriptor IN
    IF descriptor.kind = "Panic" THEN LiftPanic
    ELSE IF descriptor.kind # "Method" THEN LiftErr("ExpectedMethodDescriptor", <<>>)
    ELSE LET n == Len(parameters_of(descriptor))
             need == IF instance THEN n + 1 ELSE n
         IN
         IF Len(stk) < need THEN LiftErr("Empty", <<>>)
         ELSE LET popped == [k \in 1..n |-> top(stk, k)]
                  args == reverse(popped)
                  call == IF instance
                          THEN Node("MethodCall", <<i>>, "", <<top(stk, n + 1)>> \o args)
                          ELSE Node("StaticCall", <<i>>, "", args)
                  rest == drop(stk, need)
              IN  IF return_type_of(descriptor).kind = "Void"
                  THEN Lifted(rest, Append(stmts, call))
                  ELSE Lifted(Append(rest, call), stmts)


\* the groups of variants that share a match arm of Block::decompile
Stores == {"IStore", "LStore", "FStore", "DStore", "AStore"}
ArrayStores ==
    {"IAStore", "LAStore", "DAStore", "CAStore", "BAStore", "AAStore", "SAStore",
     "FAStore"}
ArrayLoads ==
    {"IALoad", "SALoad", "DALoad", "LALoad", "CALoad", "BALoad", "AALoad", "FALoad"}
ValueReturns == {"AReturn", "IReturn", "FReturn", "DReturn", "LReturn"}

\* ast.rs:262-286, 313-357: variant -> the AST variant its arm pushes
BinaryArms ==
    [IMul |-> "Mul", FMul |-> "Mul", DMul |-> "Mul", LMul |-> "Mul",
     IDiv |-> "Div", FDiv |-> "Div", DDiv |-> "Div", LDiv |-> "Div",
     IAdd |-> "Add", FAdd |-> "Add", DAdd |-> "Add", LAdd |-> "Add",
     ISub |-> "Sub", FSub |-> "Sub", DSub |-> "Sub", LSub |-> "Sub",
     IRem |-> "Sub", FRem |-> "Sub", DRem |-> "Sub", LRem |-> "Sub",
     FCmpL |-> "Comparison", DCmpL |-> "Comparison",
     FCmpG |-> "Comparison", DCmpG |-> "Comparison",
     LCmp |-> "SignedComparison",
     IAnd |-> "BitwiseAnd", LAnd |-> "BitwiseAnd",
     IOr |-> "BitwiseOr", LOr |-> "BitwiseOr",
     IXOr |-> "Xor", LXOr |-> "Xor",
     IShL |-> "BitwiseShl", LShL |-> "BitwiseShl",
     IShR |-> "BitwiseShr", LShR |-> "BitwiseShr",
     IUShR |-> "LogicalShr", LUShR |-> "LogicalShr"]

\* ast.rs:313-322: the ComparisonMode of FCMPx / DCMPx
ComparisonModes ==
    [FCmpL |-> "Less", DCmpL |-> "Less", FCmpG |-> "Greater", DCmpG |-> "Greater"]

\* ast.rs:287-293: variant -> the VarType its arm hands to prim_cast
CastArms ==
    [F2l |-> "Long", D2l |-> "Long", I2l |-> "Long",
     F2d |-> "Double", I2d |-> "Double", L2d |-> "Double",
     F2i |-> "Int", D2i |-> "Int", L2i |-> "Int",
     I2f |-> "Float", D2f |-> "Float", L2f |-> "Float",
     I2b |-> "Float", I2s |-> "Short", I2c |-> "Char"]

\* ast.rs:433-462: the two-operand branches -> the statement pushed
CompareBranchArms ==
    [IfICmpEq |-> "IfEqual", IfACmpEq |-> "IfEqual",
     IfICmpNe |-> "IfNotEqual", IfACmpNe |-> "IfNotEqual",
     IfICmpGt |-> "IfGreaterThan", IfICmpGe |-> "IfGreaterThanOrEqual",
     IfICmpLt |-> "IfLessThan", IfICmpLe |-> "IfLessThanOrEqual"]

\* ast.rs:463-490: the one-operand branches -> the statement pushed
BranchArms ==
    [IfEq |-> "IfEq", IfGe |-> "IfGe", IfGt |-> "IfGt", IfLe |-> "IfLe",
     IfLt |-> "IfLt", IfNonNull |-> "IfNonnull", IfNull |-> "IfNull"]

\* ast.rs:129-133: the VarType of the loads
LoadArms ==
    [ILoad |-> "Int", LLoad |-> "Long", FLoad |-> "Float", DLoad |-> "Double",
     ALoad |-> "Reference"]

\* ast.rs:258-261: the constant variants
ConstArms ==
    [IConst |-> "IntegerConstant", DConst |-> "DoubleConstant",
     FConst |-> "FloatConstant", LConst |-> "LongConstant"]

\* ast.rs:242-252: the LoadConst arm
load_const(pool, stk, stmts, i) ==
    IF i \notin DOMAIN pool THEN LiftErr("NotFound", <<i>>)
    ELSE LET c == pool[i] IN
    CASE c.tag = "Integer" -> push_leaf(stk, stmts, Leaf("IntegerConstant", <<c.a>>))
      [] c.tag = "Float" -> push_leaf(stk, stmts, Leaf("FloatConstant", <<c.a>>))
      [] c.tag = "Long" -> push_leaf(stk, stmts, Leaf("LongConstant", <<c.a>>))
      [] c.tag = "Double" -> push_leaf(stk, stmts, Leaf("DoubleConstant", <<c.a>>))
      [] c.tag = "String" ->
            LET u == get_utf8(pool, c.a) IN
            IF u.ok THEN push_leaf(stk, stmts, Leaf("StringConst", <<c.a>>))
            ELSE ConstErr(u)
      [] OTHER -> LiftPanic                        \* unimplemented!()

\* ast.rs:378-419: the Dup arms
dup(name, stk, stmts) ==
    LET len == Len(stk) IN
    CASE name = "Dup" ->
            IF len = 0 THEN LiftErr("NotEnough", <<1, 0>>)
            ELSE Lifted(Append(stk, top(stk, 1)), stmts)
      [] name = "DupX1" ->
            IF len = 0 THEN LiftErr("NotEnough", <<1, 0>>)
            ELSE IF len < 2 THEN LiftPanic         \* len - 2 below zero
            ELSE Lifted(insert_at(stk, len - 2, top(stk, 1)), stmts)
      [] name = "DupX2" ->
            IF len = 0 THEN LiftErr("NotEnough", <<1, 0>>)
            ELSE IF len < 3 THEN LiftPanic         \* len - 3 below zero
            ELSE Lifted(insert_at(stk, len - 3, top(stk, 1)), stmts)
      [] name = "Dup2" ->
            IF len < 2 THEN LiftUnderflow("NotEnough", <<1, 0>>)
            ELSE Lifted(stk \o <<top(stk, 2), top(stk, 1)>>, stmts)
      [] name = "Dup2X1" ->
            IF len < 2 THEN LiftUnderflow("NotEnough", <<1, 0>>)
            ELSE LET s1 == insert_at(stk, len - 2, top(stk, 2)) IN
                 Lifted(insert_at(s1, Len(s1) - 3, top(stk, 1)), stmts)
      [] name = "Dup2X2" ->
            IF len < 2 THEN LiftUnderflow("NotEnough", <<1, 0>>)
            ELSE IF len < 3 THEN LiftPanic         \* len - 3 below zero
            ELSE LET s1 == insert_at(stk, len - 3, top(stk, 2)) IN
                 Lifted(insert_at(s1, Len(s1) - 4, top(stk, 1)), stmts)

\* ast.rs:127-495: one iteration of the loop of Block::decompile, the match
\* on the instruction
decompile_instr(pool, code, stk, stmts) ==
    LET n == code.name
        a == code.args
        member == get_member_ref(pool, a[1])
        class == get_class_path_required(pool, a[1])
    IN
    CASE n = "Swap" -> swap(stk, stmts)
      [] n \in DOMAIN LoadArms ->
            push_leaf(stk, stmts, Node("Variable", <<a[1]>>, LoadArms[n], <<>>))
      [] n \in {"InvokeSpecial", "InvokeInterface", "InvokeVirtual"} ->
            invoke(pool, stk, stmts, a[1], TRUE)
      [] n = "InvokeStatic" -> invoke(pool, stk, stmts, a[1], FALSE)
      [] n = "InvokeDynamic" ->
            IF a[1] \notin DOMAIN pool THEN LiftErr("NotFound", <<a[1]>>)
            ELSE IF pool[a[1]].tag # "InvokeDynamic"
            THEN LiftErr("ExpectedInvokeDynamic", <<a[1]>>)
            ELSE LiftPanic                         \* unimplemented!()
      [] n = "Return" -> Lifted(stk, Append(stmts, Leaf("VoidReturn", <<>>)))
      [] n \in Stores -> state_unary(stk, stmts, "Set", <<a[1]>>)
      [] n \in ArrayStores ->
            IF Len(stk) < 3 THEN LiftErr("Empty", <<>>)
            ELSE Lifted(drop(stk, 3),
                        Append(stmts, Node("ArrayStore", <<>>, "",
                                           <<top(stk, 1), top(stk, 2), top(stk, 3)>>)))
      [] n \in ArrayLoads ->
            IF Len(stk) < 2 THEN LiftErr("Empty", <<>>)
            ELSE Lifted(Append(drop(stk, 2),
                               Node("ArrayLoad", <<>>, "", <<top(stk, 2), top(stk, 1)>>)),
                        stmts)
      [] n = "PutField" ->
            IF ~member.ok THEN ConstErr(member)
            ELSE IF Len(stk) < 2 THEN LiftErr("Empty", <<>>)
            ELSE Lifted(drop(stk, 2),
                        Append(stmts, Node("FieldSet", <<a[1]>>, "",
                                           <<top(stk, 2), top(stk, 1)>>)))
      [] n = "GetField" ->
            IF ~member.ok THEN ConstErr(member)
            ELSE push_unary(stk, stmts, "FieldGet", <<a[1]>>)
      [] n = "PutStatic" ->
            IF ~member.ok THEN ConstErr(member)
            ELSE state_unary(stk, stmts, "StaticSet", <<a[1]>>)
      [] n = "GetStatic" ->
            IF ~member.ok THEN ConstErr(member)
            ELSE push_leaf(stk, stmts, Leaf("StaticGet", <<a[1]>>))
      [] n = "ArrayLength" -> push_unary(stk, stmts, "ArrayLength", <<>>)
      [] n = "LoadConst" -> load_const(pool, stk, stmts, a[1])
      [] n = "CheckCast" ->
            IF ~class.ok THEN ConstErr(class)
            ELSE push_unary(stk, stmts, "ClassCast", <<a[1]>>)
      [] n \in DOMAIN ConstArms -> push_leaf(stk, stmts, Leaf(ConstArms[n], <<a[1]>>))
      [] n \in DOMAIN BinaryArms ->
            push_binary(stk, stmts, BinaryArms[n],
                        IF n \in DOMAIN ComparisonModes THEN ComparisonModes[n] ELSE "")
      [] n \in DOMAIN CastArms -> prim_cast(stk, stmts, CastArms[n])
      [] n = "AConstNull" -> push_leaf(stk, stmts, Leaf("Null", <<>>))
      [] n = "BIPush" -> push_leaf(stk, stmts, Leaf("Int", <<a[1]>>))
      [] n = "SIPush" -> push_leaf(stk, stmts, Leaf("Short", <<a[1]>>))
      [] n \in {"Pop", "MonitorEnter", "MonitorExit"} ->
            IF stk = <<>> THEN LiftErr("Empty", <<>>) ELSE Lifted(drop(stk, 1), stmts)
      [] n = "Pop2" -> pop2(stk, stmts)
      [] n \in ValueReturns -> state_unary(stk, stmts, "Return", <<>>)
      [] n = "New" ->
            IF ~class.ok THEN ConstErr(class)
            ELSE push_leaf(stk, stmts, Leaf("New", <<a[1]>>))
      [] n \in {"INeg", "FNeg", "DNeg", "LNeg"} -> push_unary(stk, stmts, "Negate", <<>>)
      [] n = "IInc" -> Lifted(stk, Append(stmts, Leaf("Increment", a)))
      [] n = "NewArray" -> push_unary(stk, stmts, "PrimitiveArray", <<a[1]>>)
      [] n = "MultiANewArray" ->
            IF Len(stk) < a[2] THEN LiftErr("Empty", <<>>)
            ELSE IF ~class.ok THEN ConstErr(class)
            ELSE Lifted(Append(drop(stk, a[2]), Leaf("NewArrayMulti", <<a[2], a[1]>>)),
                        stmts)
      [] n \in {"Dup", "DupX1", "DupX2", "Dup2", "Dup2X1", "Dup2X2"} ->
            dup(n, stk, stmts)
      [] n = "InstanceOf" ->
            IF ~class.ok THEN ConstErr(class)
            ELSE push_unary(stk, stmts, "InstanceOf", <<a[1]>>)
      [] n = "LookupSwitch" ->
            state_unary(stk, stmts, "SwitchLookup", a \o code.keys \o code.offsets)
      [] n = "TableSwitch" ->
            state_unary(stk, stmts, "SwitchTable", a \o code.offsets)
      [] n \in DOMAIN CompareBranchArms ->
            state_binary(stk, stmts, CompareBranchArms[n], <<a[1]>>)
      [] n \in DOMAIN BranchArms -> state_unary(stk, stmts, BranchArms[n], <<a[1]>>)
      [] n = "JSr" -> push_leaf(stk, stmts, Leaf("JSR", <<a[1]>>))
      [] OTHER -> Lifted(stk, stmts)

----------------------------------------------------------------------------
(* The inputs of the decoder.                                              *)

\* bytes the raw code arrays are built from: NOP, ICONST_0, IFLT, GOTO,
\* IRETURN and 0xff (an operand byte of a backward offset, no opcode)
RawBytes == {0, 3, 155, 167, 172, 255}

RawCodes == UNION {[1..n -> RawBytes] : n \in 0..MaxRawLen}

\* whole instructions the assembled code arrays are built from
Chunks ==
    { <<26>>,                    \* ILOAD_0
      <<172>>,                   \* IRETURN
      <<191>>,                   \* ATHROW
      <<155, 0, 3>>,             \* IFLT +3
      <<155, 0, 4>>,             \* IFLT +4
      <<167, 0, 0>>,             \* GOTO +0
      <<167, 255, 253>>,         \* GOTO -3
      <<198, 0, 3>>,             \* IFNULL +3
      <<165, 0, 3>>,             \* IF_ACMPEQ +3
      <<168, 0, 3>>,             \* JSR +3
      <<200, 0, 0, 0, 5>>,       \* GOTO_W +5
      <<196, 21, 0, 1>>,         \* WIDE ILOAD 1
      <<185, 0, 1, 1, 0>>,       \* INVOKEINTERFACE #1
      \* TABLESWITCH at a multiple of 4: default +24, low 0, high 1, +24, +25
      <<170, 0, 0, 0,  0, 0, 0, 24,  0, 0, 0, 0,  0, 0, 0, 1,
        0, 0, 0, 24,  0, 0, 0, 25>>,
      \* TABLESWITCH at a multiple of 4: default +24, low -1, high 0, +24, +24
      <<170, 0, 0, 0,  0, 0, 0, 24,  255, 255, 255, 255,  0, 0, 0, 0,
        0, 0, 0, 24,  0, 0, 0, 24>>,
      \* ILOAD_0, then TABLESWITCH at offset 1 with two bytes of padding:
      \* default +23, low 1, high 2, +23, +23
      <<26, 170, 0, 0,  0, 0, 0, 23,  0, 0, 0, 1,  0, 0, 0, 2,
        0, 0, 0, 23,  0, 0, 0, 23>>,
      \* LOOKUPSWITCH at a multiple of 4: default +20, one pair 7 -> +20
      <<171, 0, 0, 0,  0, 0, 0, 20,  0, 0, 0, 1,  0, 0, 0, 7,  0, 0, 0, 20>> }

RECURSIVE Flatten(_)
Flatten(ss) == IF ss = <<>> THEN <<>> ELSE Head(ss) \o Flatten(Tail(ss))

AssembledCodes == {Flatten(ss) : ss \in UNION {[1..n -> Chunks] : n \in 1..MaxChunks}}

\* scenario S3 of the specification
ScenarioS3 == <<26, 155, 0, 5, 4, 172, 5, 172>>

\* operand bytes that are enough, and valid, for every opcode: a NEWARRAY
\* type or WIDE-prefixed ICONST_1 followed by zeros
ProbeOperands == <<4>> \o [i \in 1..19 |-> 0]

\* one code array per opcode byte: the byte followed by ProbeOperands
OpcodeProbes == {<<b>> \o ProbeOperands : b \in 0..(U8 - 1)}

Codes == RawCodes \cup AssembledCodes \cup {ScenarioS3} \cup OpcodeProbes

----------------------------------------------------------------------------
(* class/op.rs: parse_code, one iteration of its loop per step.            *)

parse_code ==
    /\ status = "decoding"
    /\ LET r == read_instr(data, cursor, FALSE, cursor) IN
       \E checked \in (IF r.ovf THEN BOOLEAN ELSE {FALSE}) :
          IF checked
          THEN /\ status' = "panic"                \* i32 `pos + offset` overflow
               /\ instructions' = <<>>
               /\ UNCHANGED <<cursor, errcode>>
          ELSE IF r.st = "ok"
          THEN /\ instructions' = Append(instructions, <<cursor, r.instr>>)
               /\ cursor' = r.p
               /\ status' = IF r.p = Len(data) THEN "ok" ELSE "decoding"
               /\ UNCHANGED errcode
          ELSE /\ status' = r.st                   \* `?`: the Err is returned
               /\ errcode' = r.code
               /\ instructions' = <<>>
               /\ UNCHANGED cursor
    /\ UNCHANGED <<data, cfg>>
    /\ UNCHANGED <<poolVars, liftVars, textVars, accessVars, classVars, splitVars>>

\* decomp/writer.rs:144-146: write_code builds the graph of a decoded method
write_code ==
    /\ status = "ok"
    /\ cfg.state = "none"
    /\ cfg' = gen_control_flow_graph(instructions)
    /\ UNCHANGED <<data, cursor, instructions, status, errcode>>
    /\ UNCHANGED <<poolVars, liftVars, textVars, accessVars, classVars, splitVars>>

----------------------------------------------------------------------------
(* The inputs of the lifter.                                               *)

\* the constant pool the lifted blocks refer to, index -> Constant
LiftPool ==
    << Utf8(<<"a", "/", "C">>),                                 \*  1
       Constant("Class", 1, 0),                                 \*  2
       Utf8(<<"m">>),                                           \*  3
       Utf8(<<"(", "I", "I", ")", "V">>),                       \*  4
       Utf8(<<"(", "I", ")", "I">>),                            \*  5
       Utf8(<<"(", "L", "A", ";", "L", "B", ";", ")", "V">>),   \*  6
       Utf8(<<"I">>),                                           \*  7
       Utf8(<<"(", ")", "V">>),                                 \*  8
       Constant("NameAndType", 3, 4),                           \*  9  m(II)V
       Constant("NameAndType", 3, 5),                           \* 10  m(I)I
       Constant("NameAndType", 3, 6),                           \* 11  m(LA;LB;)V
       Constant("NameAndType", 3, 7),                           \* 12  m I
       Constant("NameAndType", 3, 8),                           \* 13  m()V
       Constant("MethodRef", 2, 9),                             \* 14  a/C.m(II)V
       Constant("MethodRef", 2, 10),                            \* 15  a/C.m(I)I
       Constant("MethodRef", 2, 11),                            \* 16  a/C.m(LA;LB;)V
       Constant("FieldRef", 2, 12),                             \* 17  a/C.m I
       Constant("MethodRef", 2, 13),                            \* 18  a/C.m()V
       Constant("InterfaceMethodRef", 2, 9),                    \* 19  a/C.m(II)V
       Constant("Integer", 7, 0),                               \* 20
       Constant("String", 3, 0),                                \* 21
       Constant("InvokeDynamic", 0, 13) >>                      \* 22

\* an index the pool has no constant at
Missing == Len(LiftPool) + 1

\* the pool indices of the method references
MethodRefs == {14, 15, 16, 18, 19}

\* instructions that push one expression and need nothing
Pushers ==
    { Simple("ILoad", <<0>>), Simple("ILoad", <<1>>),
      Simple("IConst", <<7>>), Simple("IConst", <<9>>) }

\* every instruction the decoder builds without reading an operand
PlainOps == {Simple(OpTable[i].name, OpTable[i].imm) :
                i \in {j \in 1..Len(OpTable) : OpTable[j].fmt = "none"}}

\* instructions with operands
OperandOps ==
    {Simple(n, <<i>>) : n \in {"InvokeStatic", "InvokeVirtual", "InvokeSpecial",
                               "InvokeInterface"},
                        i \in MethodRefs \cup {17, Missing}}
    \cup {Simple(n, <<17>>) : n \in {"GetStatic", "PutStatic", "GetField", "PutField"}}
    \cup {Simple("LoadConst", <<i>>) : i \in {1, 20, 21, Missing}}
    \cup {Simple(n, <<i>>) : n \in {"CheckCast", "New", "InstanceOf"}, i \in {2, 3}}
    \cup {Simple("InvokeDynamic", <<i>>) : i \in {2, 22, Missing}}
    \cup {Simple(n, <<0>>) : n \in DOMAIN CompareBranchArms \cup DOMAIN BranchArms
                                   \cup {"Goto", "JSr"}}
    \cup { Simple("IfNe", <<8>>), Simple("IfEq", <<8>>), Simple("IfICmpLt", <<8>>),
           Simple("ANewArray", <<2>>), Simple("Ret", <<1>>) }
    \cup { Simple("MultiANewArray", <<2, 2>>), Simple("NewArray", <<10>>),
           Simple("IInc", <<1, 1>>), Simple("BIPush", <<5>>), Simple("SIPush", <<300>>),
           Simple("IStore", <<4>>),
           MkInstr("TableSwitch", <<24, 0, 0>>, <<>>, <<24>>),
           MkInstr("LookupSwitch", <<20>>, <<7>>, <<20>>) }

LiftOps == PlainOps \cup OperandOps

\* what may follow the instruction under study
Posts == { <<>>, <<Simple("IReturn", <<>>)>> }

\* the blocks handed to Block::decompile: up to MaxPrefix pushes, one
\* instruction, and an optional return
LiftBlocks ==
    {pre \o <<op>> \o post :
        pre \in UNION {[1..n -> Pushers] : n \in 0..MaxPrefix},
        op \in LiftOps, post \in Posts}

----------------------------------------------------------------------------
(* decomp/ast.rs: Block::decompile, one iteration of its loop per step.    *)

decompile_step ==
    /\ liftst = "lifting"
    /\ pc < Len(block)
    /\ \E r \in {decompile_instr(LiftPool, block[pc + 1], stack, statements)} :
       \E checked \in (IF r.st = "underflow" THEN BOOLEAN ELSE {FALSE}) :
          IF r.st = "ok"
          THEN /\ stack' = r.stack
               /\ statements' = r.statements
               /\ pc' = pc + 1
               /\ UNCHANGED <<liftst, lifterr>>
          ELSE IF r.st = "panic" \/ checked
          THEN /\ liftst' = "panic"
               /\ statements' = <<>>
               /\ UNCHANGED <<stack, pc, lifterr>>
          ELSE /\ liftst' = "err"                  \* `?`: the Err is returned
               /\ lifterr' = r.err
               /\ statements' = <<>>
               /\ UNCHANGED <<stack, pc>>
    /\ UNCHANGED block
    /\ UNCHANGED <<decodeVars, poolVars, textVars, accessVars, classVars, splitVars>>

\* ast.rs:497-498: `stack.empty()?; Ok(statements)`
decompile_end ==
    /\ liftst = "lifting"
    /\ pc = Len(block)
    /\ LET e == empty(stack) IN
       IF e = NoErr
       THEN /\ liftst' = "ok"
            /\ UNCHANGED <<statements, lifterr>>
       ELSE /\ liftst' = "err"
            /\ lifterr' = e
            /\ statements' = <<>>
    /\ UNCHANGED <<block, pc, stack>>
    /\ UNCHANGED <<decodeVars, poolVars, textVars, accessVars, classVars, splitVars>>

----------------------------------------------------------------------------
(* The inputs of Descriptor::parse and ClassPath::from.                    *)

JavaLangString ==
    <<"j", "a", "v", "a", "/", "l", "a", "n", "g", "/", "S", "t", "r", "i", "n", "g">>

\* internal class names used inside descriptors
ClassNames == { <<"A">>, <<"a", "/", "B">>, JavaLangString }

\* element types: the eight base tags and the class types
ElementTexts ==
    {<<t>> : t \in DOMAIN PrimitiveTags \ {"V"}}
        \cup {<<"L">> \o n \o <<";">> : n \in ClassNames}

\* field descriptors: an element type under up to MaxDims array dimensions
FieldTexts == {repeat(<<"[">>, k) \o e : k \in 0..MaxDims, e \in ElementTexts}

\* the parameter and return types the method descriptors are built from
ParamChoices ==
    { <<"I">>, <<"J">>, <<"L", "A", ";">>, <<"L", "a", "/", "B", ";">>, <<"[", "I">> }
ReturnChoices == { <<"V">>, <<"I">>, <<"L">> \o JavaLangString \o <<";">> }

\* method descriptors with up to MaxParams parameters
MethodTexts ==
    {<<"(">> \o Flatten(ps) \o <<")">> \o r :
        ps \in UNION {[1..n -> ParamChoices] : n \in 0..MaxParams},
        r \in ReturnChoices}

\* strings that are no descriptor
MalformedTexts ==
    { <<>>, <<"L">>, <<"X">>, <<"(">>, <<"(", "I">>, <<"[", "L">>, <<"(", "L", ")", "V">> }

DescriptorTexts == {<<"V">>} \cup FieldTexts \cup MethodTexts \cup MalformedTexts

\* the package segments and type names the internal names are built from
Segments == { <<"a">>, <<"b">> }
TypeNames == { <<"C">>, <<"D">> }

Packages == UNION {[1..n -> Segments] : n \in 0..MaxPackages}
Chains == UNION {[1..n -> TypeNames] : n \in 1..MaxNest}

\* the internal name of the type chain[last] nested in chain[1..] in package pk
InternalName(pk, chain) ==
    (IF pk = <<>> THEN <<>> ELSE join(pk, <<"/">>) \o <<"/">>) \o join(chain, <<"$">>)

InternalNames == {InternalName(pk, chain) : pk \in Packages, chain \in Chains}

----------------------------------------------------------------------------
(* class/descriptor.rs and class/class.rs: a parse followed by a render.   *)

\* Descriptor::parse(text)
descriptor_parse ==
    /\ textst = "input"
    /\ LET d == Descriptor_parse(text) IN
       IF d.kind = "Panic"
       THEN textst' = "panic" /\ UNCHANGED parsed
       ELSE textst' = "parsed" /\ parsed' = d
    /\ UNCHANGED <<text, rendered>>
    /\ UNCHANGED <<decodeVars, poolVars, liftVars, accessVars, classVars, splitVars>>

\* parsed.to_internal_java()
descriptor_render ==
    /\ textst = "parsed"
    /\ rendered' = to_internal_java(parsed)
    /\ textst' = "rendered"
    /\ UNCHANGED <<text, parsed>>
    /\ UNCHANGED <<decodeVars, poolVars, liftVars, accessVars, classVars, splitVars>>

\* ClassPath::from(text)
class_path_from ==
    /\ textst = "input"
    /\ parsed' = ClassPath_from(text)
    /\ textst' = "parsed"
    /\ UNCHANGED <<text, rendered>>
    /\ UNCHANGED <<decodeVars, poolVars, liftVars, accessVars, classVars, splitVars>>

\* parsed.internal_path()
class_path_render ==
    /\ textst = "parsed"
    /\ rendered' = internal_path(parsed)
    /\ textst' = "rendered"
    /\ UNCHANGED <<text, parsed>>
    /\ UNCHANGED <<decodeVars, poolVars, liftVars, accessVars, classVars, splitVars>>

----------------------------------------------------------------------------
(* class/access.rs: AccessFlag and AccessFlags.                            *)

\* u16 & u16 and u16 | u16
RECURSIVE bitand(_, _)
bitand(a, b) ==
    IF a = 0 \/ b = 0 THEN 0
    ELSE (a % 2) * (b % 2) + 2 * bitand(a \div 2, b \div 2)

RECURSIVE bitor(_, _)
bitor(a, b) ==
    IF a = 0 THEN b
    ELSE IF b = 0 THEN a
    ELSE (IF a % 2 = 1 \/ b % 2 = 1 THEN 1 ELSE 0) + 2 * bitor(a \div 2, b \div 2)

\* access.rs:87-106: the access_flags! table, AccessFlag -> its literal
FlagValues ==
    [Public |-> 1, Private |-> 2, Protected |-> 4, Static |-> 8, Final |-> 16,
     Super |-> 32, Synchronized |-> 32, Interface |-> 512, Volatile |-> 64,
     Bridge |-> 64, Transient |-> 128, Varargs |-> 128, Native |-> 256,
     Abstract |-> 1024, Strict |-> 2048, Synthetic |-> 4096, Annotation |-> 8192,
     Enum |-> 16384]

AccessFlag == DOMAIN FlagValues

\* access.rs:33-37: AccessFlag::value
value(f) == FlagValues[f]

\* access.rs:75-78: AccessFlags::set, the new self.0
set_or(v, f) == bitor(v, value(f))
set(v, f) == bitand(v, value(f))

\* access.rs:80-83: AccessFlags::is_set; `|` binds tighter than `==`
is_set(v, f) == bitor(v, value(f)) = value(f)

\* the flag words handed to AccessFlags: every union of up to MaxFlagBits
\* masks of the table (AccessFlags::new() is the empty union)
RECURSIVE Sum(_)
Sum(S) == IF S = {} THEN 0 ELSE LET x == CHOOSE x \in S : TRUE IN x + Sum(S \ {x})

FlagWords ==
    {Sum(S) : S \in {T \in SUBSET {value(f) : f \in AccessFlag} :
                        Cardinality(T) <= MaxFlagBits}}

access_set ==
    /\ lastcall # "idle"
    /\ \E f \in AccessFlag :
          /\ flags' = set(flags, f)
          /\ flag' = f
    /\ lastcall' = "set"
    /\ UNCHANGED answer
    /\ UNCHANGED <<decodeVars, poolVars, liftVars, textVars, classVars, splitVars>>

access_is_set ==
    /\ lastcall # "idle"
    /\ \E f \in AccessFlag :
          /\ answer' = is_set(flags, f)
          /\ flag' = f
    /\ lastcall' = "is_set"
    /\ UNCHANGED flags
    /\ UNCHANGED <<decodeVars, poolVars, liftVars, textVars, classVars, splitVars>>

----------------------------------------------------------------------------
(* decomp/ops.rs: decompile_block, the lifter decomp/writer.rs calls.      *)

\* `stack.pop().ok_or(DecompileError::EmptyStack)?` k times, then result
popping(stk, k, result) ==
    IF Len(stk) < k THEN LiftErr("EmptyStack", <<>>) ELSE result

\* constant.rs:74-86: ConstantPool::get_class_path; v = 0 stands for None
get_class_path(pool, i) ==
    IF i = 0 \/ i \notin DOMAIN pool THEN Found(0)
    ELSE IF pool[i].tag # "Class" THEN NotFound("InvalidClassReference", i)
    ELSE LET u == get_utf8(pool, pool[i].a) IN
         IF u.ok THEN Found(i) ELSE NotFound("InvalidClassReference", i)

\* ops.rs:276-303: the InvokeSpecial | InvokeVirtual arm, method the result
\* of get_member_ref for the instruction's index i
call_arm(method, stk, stmts, i) ==
    IF ~method.ok THEN ConstErr(method)
    ELSE LET descriptor == method.v.name_and_type.descriptor IN
    IF descriptor.kind = "Panic" THEN LiftPanic
    ELSE IF descriptor.kind # "Method" THEN LiftErr("ExpectedMethodDescriptor", <<>>)
    ELSE LET k == Len(parameters_of(descriptor))
             args == reverse([j \in 1..k |-> top(stk, j)])
             call == Node("Call", <<i>>, "", <<top(stk, k + 1)>> \o args)
             rest == drop(stk, k + 1)
         IN  popping(stk, k + 1,
                IF return_type_of(descriptor).kind = "Void"
                THEN Lifted(rest, Append(stmts, call))
                ELSE Lifted(Append(rest, call), stmts))

\* ops.rs:245-373: the match of decompile_block on one instruction
decompile_block_instr(pool, code, stk, stmts) ==
    LET n == code.name
        a == code.args
        member == get_member_ref(pool, a[1])
    IN
    CASE n \in DOMAIN LoadArms ->
            push_leaf(stk, stmts, Node("Variable", <<a[1]>>, LoadArms[n], <<>>))
      [] n \in {"InvokeSpecial", "InvokeVirtual"} ->
            call_arm(get_member_ref(pool, a[1]), stk, stmts, a[1])
      [] n = "Return" -> Lifted(stk, Append(stmts, Leaf("VoidReturn", <<>>)))
      [] n \in Stores ->
            popping(stk, 1,
                Lifted(drop(stk, 1),
                       Append(stmts, Node("Set", <<a[1]>>, "", <<top(stk, 1)>>))))
      [] n = "GetStatic" ->
            IF ~member.ok THEN ConstErr(member)
            ELSE IF member.v.name_and_type.descriptor.kind = "Panic" THEN LiftPanic
            ELSE push_leaf(stk, stmts, Leaf("Static", <<a[1]>>))
      [] n = "ArrayLength" ->
            popping(stk, 1,
                Lifted(Append(drop(stk, 1),
                              Node("ArrayLength", <<>>, "", <<top(stk, 1)>>)), stmts))
      [] n = "LoadConst" ->
            IF a[1] \notin DOMAIN pool THEN LiftErr("NotFound", <<a[1]>>)
            ELSE LET c == pool[a[1]] IN
                 IF c.tag = "String"
                 THEN LET u == get_utf8(pool, c.a) IN
                      IF u.ok THEN push_leaf(stk, stmts, Leaf("ConstString", <<c.a>>))
                      ELSE ConstErr(u)
                 ELSE IF c.tag \in {"Long", "Integer"}
                 THEN push_leaf(stk, stmts, Leaf("ConstInt", <<c.a>>))
                 ELSE IF c.tag \in {"Double", "Float"}
                 THEN push_leaf(stk, stmts, Leaf("ConstFloat", <<c.a>>))
                 ELSE LiftPanic                    \* unimplemented!()
      [] n = "IConst" -> push_leaf(stk, stmts, Leaf("ConstInt", <<a[1]>>))
      [] n = "IMul" ->
            popping(stk, 2,
                Lifted(Append(drop(stk, 2),
                              Node("Mul", <<>>, "", <<top(stk, 2), top(stk, 1)>>)), stmts))
      [] n = "I2b" ->
            popping(stk, 1,
                Lifted(Append(drop(stk, 1),
                              Node("BasicCast", <<>>, "Byte", <<top(stk, 1)>>)), stmts))
      [] n = "CheckCast" ->
            LET class == get_class_path_required(pool, a[1]) IN
            IF ~class.ok THEN ConstErr(class)
            ELSE popping(stk, 1,
                    Lifted(Append(drop(stk, 1),
                                  Node("ClassCast", <<a[1]>>, "", <<top(stk, 1)>>)), stmts))
      [] n = "PutField" -> popping(stk, 2, Lifted(drop(stk, 2), stmts))
      [] n = "MultiANewArray" ->
            LET clazz == get_class_path(pool, a[1]) IN
            popping(stk, a[2],
                IF ~clazz.ok THEN ConstErr(clazz)
                ELSE IF clazz.v = 0 THEN LiftErr("NotFound", <<a[1]>>)
                ELSE Lifted(Append(drop(stk, a[2]), Leaf("ArrayReference", <<a[2], a[1]>>)),
                            stmts))
      [] OTHER -> Lifted(stk, stmts)               \* `v => println!("{:?}", v)`

\* ops.rs:238-379: decompile_block from instruction k of the block on, r the
\* outcome of the instructions before it
RECURSIVE decompile_block_from(_, _, _, _)
decompile_block_from(pool, instrs, k, r) ==
    IF r.st # "ok" THEN r                          \* `?`: the Err is returned
    ELSE IF k > Len(instrs)
    THEN IF Len(r.stack) # 0 THEN LiftErr("StackSize", <<Len(r.stack)>>) ELSE r
    ELSE decompile_block_from(pool, instrs, k + 1,
            decompile_block_instr(pool, instrs[k][2], r.stack, r.statements))

decompile_block(b, pool) ==
    decompile_block_from(pool, b.instructions, 1, Lifted(<<>>, <<>>))

----------------------------------------------------------------------------
(* decomp/writer.rs: write_class, one iteration of its loop over the       *)
(* methods per step.                                                       *)

\* class/op.rs:457-470: parse_code from the cursor on; checked is TRUE in a
\* build whose i32 additions panic on overflow
RECURSIVE parse_code_from(_, _, _, _)
parse_code_from(d, cur, ins, checked) ==
    LET r == read_instr(d, cur, FALSE, cur) IN
    IF r.ovf /\ checked THEN [st |-> "panic", v |-> <<>>]
    ELSE IF r.st # "ok" THEN [st |-> "err", v |-> <<>>]
    ELSE LET pushed == Append(ins, <<cur, r.instr>>) IN
         IF r.p = Len(d) THEN [st |-> "ok", v |-> pushed]
         ELSE parse_code_from(d, r.p, pushed, checked)

\* writer.rs:143-165: the results write_code can end with, in its stages:
\* the loop over the blocks of the graph (visited in HashMap order, so any
\* block that fails may be the first to), and the decoding before it
WriteBlocks(control_flow_graph) ==
    IF control_flow_graph.state = "panic" THEN {"panic"}
    ELSE LET results == {decompile_block(control_flow_graph.blocks[k], LiftPool).st :
                            k \in DOMAIN control_flow_graph.blocks}
         IN  IF results \subseteq {"ok"} THEN {"ok"}
             ELSE {IF s = "err" THEN "DecompileError" ELSE s : s \in results \ {"ok"}}

WriteInstrs(instr) ==
    IF instr.st = "panic" THEN {"panic"}
    ELSE IF instr.st = "err" THEN {"BadCodeAttribute"}
    ELSE WriteBlocks(gen_control_flow_graph(instr.v))

WriteCode(code, checked) == WriteInstrs(parse_code_from(code, 0, <<>>, checked))

\* writer.rs:234-278: the results write_method can end with
WriteMethod(method, checked) ==
    LET code_attrs == {j \in DOMAIN method.attributes :
                          method.attributes[j].name = "Code"}
        desc == Descriptor_parse(method.descriptor)
    IN  IF desc.kind = "Panic" THEN {"panic"}
        ELSE IF desc.kind # "Method" THEN {"BadDescriptor"}
        ELSE IF code_attrs = {} THEN {"panic"}     \* `.find(..).unwrap()`
        ELSE WriteCode(method.attributes[CHOOSE j \in code_attrs :
                                            \A l \in code_attrs : j <= l].code, checked)

\* writer.rs:73-77: `self.write_method(class, method, o)?` for the next method
write_method ==
    /\ writest = "writing"
    /\ mi < Len(methods)
    /\ \E checked \in BOOLEAN :
       \E result \in WriteMethod(methods[mi + 1], checked) :
          IF result = "ok"
          THEN /\ written' = written \cup {mi + 1}
               /\ mi' = mi + 1
               /\ UNCHANGED writest
          ELSE /\ writest' = result                \* `?`: write_class returns
               /\ UNCHANGED <<written, mi>>
    /\ UNCHANGED methods
    /\ UNCHANGED <<decodeVars, poolVars, liftVars, textVars, accessVars, splitVars>>

\* writer.rs:79-80: `write!(o, "}}")?; Ok(())`
write_class ==
    /\ writest = "writing"
    /\ mi = Len(methods)
    /\ writest' = "ok"
    /\ UNCHANGED <<methods, mi, written>>
    /\ UNCHANGED <<decodeVars, poolVars, liftVars, textVars, accessVars, splitVars>>

----------------------------------------------------------------------------
(* The inputs of the writer.                                               *)

Attribute(name, code) == [name |-> name, code |-> code]
Member(descriptor, attributes) == [descriptor |-> descriptor, attributes |-> attributes]

VoidMethod == <<"(", ")", "V">>

\* code arrays: return; iload_0 istore_1 return; iconst_2 iconst_3 imul
\* istore_0 return; goto +3 return; an unassigned opcode; iload_0 return (a
\* value is left on the stack); istore_1 return (nothing to pop); ldc of a
\* Class constant
MethodCodes ==
    { <<177>>, <<26, 60, 177>>, <<5, 6, 104, 59, 177>>, <<167, 0, 3, 177>>,
      <<255>>, <<26, 177>>, <<60, 177>>, <<18, 2, 177>> }

\* the methods of a class: with a Code attribute, abstract (no Code
\* attribute), and one whose descriptor is a field type
Members ==
    {Member(VoidMethod, <<Attribute("Code", c)>>) : c \in MethodCodes}
    \cup { Member(VoidMethod, <<>>),
           Member(<<"I">>, <<Attribute("Code", <<177>>)>>) }

----------------------------------------------------------------------------
(* Specifications.                                                         *)

DecoderIdle ==
    /\ data = <<>>
    /\ cursor = 0
    /\ instructions = <<>>
    /\ status = "idle"
    /\ errcode = 0
    /\ cfg = CfgNone

PoolIdle ==
    /\ wire = <<>>
    /\ size = 0
    /\ index = 1
    /\ nread = 0
    /\ inner = EmptyPool
    /\ poolst = "idle"

LiftIdle ==
    /\ block = <<>>
    /\ pc = 0
    /\ stack = <<>>
    /\ statements = <<>>
    /\ liftst = "idle"
    /\ lifterr = NoErr

TextIdle ==
    /\ text = <<>>
    /\ parsed = NoPath
    /\ rendered = <<>>
    /\ textst = "idle"

AccessIdle ==
    /\ flags = 0
    /\ lastcall = "idle"
    /\ flag = "Public"
    /\ answer = FALSE

ClassIdle ==
    /\ methods = <<>>
    /\ mi = 0
    /\ written = {}
    /\ writest = "idle"

SplitIdle ==
    /\ splitvec = <<>>
    /\ splitidx = <<>>
    /\ splitout = <<>>
    /\ splitst = "idle"

\* the decoder and the graph builder on every code array of Codes
Init ==
    /\ data \in Codes
    /\ cursor = 0
    /\ instructions = <<>>
    /\ status = "decoding"
    /\ errcode = 0
    /\ cfg = CfgNone
    /\ PoolIdle /\ LiftIdle /\ TextIdle /\ AccessIdle /\ ClassIdle /\ SplitIdle

Next == parse_code \/ write_code

Spec == Init /\ [][Next]_vars

\* tag bytes on the wire: Utf8, an undefined tag, Integer, Long, Double
WireTags == {1, 2, 3, 5, 6}

\* the constant-pool reader on every declared count and wire
PoolInit ==
    /\ size \in 0..MaxPoolCount
    /\ wire \in UNION {[1..n -> WireTags] : n \in 0..MaxPoolCount}
    /\ index = 1
    /\ nread = 0
    /\ inner = EmptyPool
    /\ poolst = "reading"
    /\ DecoderIdle /\ LiftIdle /\ TextIdle /\ AccessIdle /\ ClassIdle /\ SplitIdle

PoolNext == read_constant \/ read_done

PoolSpec == PoolInit /\ [][PoolNext]_vars

\* the reader on the largest declared counts, taken up where its loop stands
\* at index FirstTailIndex after FilledCount Integer constants, one index
\* each; from there on wire is the rest of the stream, nread counts the
\* constants read from it and inner holds the entries inserted for them
FirstTailIndex == U16 - 5
FilledCount == FirstTailIndex - 1

\* what follows on the wire: Integer, Long or an undefined tag
TailTags == {2, 3, 5}

LargePoolInit ==
    /\ size \in (U16 - 3)..(U16 - 1)
    /\ wire \in UNION {[1..n -> TailTags] : n \in 0..MaxTail}
    /\ index = FirstTailIndex
    /\ nread = 0
    /\ inner = EmptyPool
    /\ poolst = "reading"
    /\ DecoderIdle /\ LiftIdle /\ TextIdle /\ AccessIdle /\ ClassIdle /\ SplitIdle

LargePoolSpec == LargePoolInit /\ [][PoolNext]_vars

\* Block::decompile on every block of LiftBlocks
LiftInit ==
    /\ block \in LiftBlocks
    /\ pc = 0
    /\ stack = <<>>
    /\ statements = <<>>
    /\ liftst = "lifting"
    /\ lifterr = NoErr
    /\ DecoderIdle /\ PoolIdle /\ TextIdle /\ AccessIdle /\ ClassIdle /\ SplitIdle

LiftNext == decompile_step \/ decompile_end

LiftSpec == LiftInit /\ [][LiftNext]_vars

\* Descriptor::parse and to_internal_java on every string of DescriptorTexts
DescInit ==
    /\ text \in DescriptorTexts
    /\ parsed = NoPath
    /\ rendered = <<>>
    /\ textst = "input"
    /\ DecoderIdle /\ PoolIdle /\ LiftIdle /\ AccessIdle /\ ClassIdle /\ SplitIdle

DescNext == descriptor_parse \/ descriptor_render

DescSpec == DescInit /\ [][DescNext]_vars

\* ClassPath::from and internal_path on every internal name of InternalNames
PathInit ==
    /\ text \in InternalNames
    /\ parsed = NoPath
    /\ rendered = <<>>
    /\ textst = "input"
    /\ DecoderIdle /\ PoolIdle /\ LiftIdle /\ AccessIdle /\ ClassIdle /\ SplitIdle

PathNext == class_path_from \/ class_path_render

PathSpec == PathInit /\ [][PathNext]_vars

\* set and is_set on every flag word of FlagWords
AccessInit ==
    /\ flags \in FlagWords
    /\ lastcall = "new"
    /\ flag = "Public"
    /\ answer = FALSE
    /\ DecoderIdle /\ PoolIdle /\ LiftIdle /\ TextIdle /\ ClassIdle /\ SplitIdle

AccessNext == access_set \/ access_is_set

AccessSpec == AccessInit /\ [][AccessNext]_vars

\* write_class on every class of up to MaxMethods methods
ClassInit ==
    /\ methods \in UNION {[1..n -> Members] : n \in 0..MaxMethods}
    /\ mi = 0
    /\ written = {}
    /\ writest = "writing"
    /\ DecoderIdle /\ PoolIdle /\ LiftIdle /\ TextIdle /\ AccessIdle /\ SplitIdle

ClassNext == write_method \/ write_class

ClassSpec == ClassInit /\ [][ClassNext]_vars

\* the elements of the vectors handed to split_at_multiple
Elems == {0, 1}

\* ast.rs:844-872: one call of split_at_multiple
split_call ==
    /\ splitst = "ready"
    /\ \E r \in {split_at_multiple(splitvec, splitidx)} :
          /\ splitst' = IF r.panic THEN "panic" ELSE "ok"
          /\ splitout' = r.out
    /\ UNCHANGED <<splitvec, splitidx>>
    /\ UNCHANGED <<decodeVars, poolVars, liftVars, textVars, accessVars, classVars>>

\* split_at_multiple on every non-empty vector of at most MaxVecLen elements
\* and every list of at most MaxSplits indices in 0..=len
SplitInit ==
    /\ splitvec \in UNION {[1..n -> Elems] : n \in 1..MaxVecLen}
    /\ splitidx \in UNION {[1..k -> 0..Len(splitvec)] : k \in 0..MaxSplits}
    /\ splitout = <<>>
    /\ splitst = "ready"
    /\ DecoderIdle /\ PoolIdle /\ LiftIdle /\ TextIdle /\ AccessIdle /\ ClassIdle

SplitNext == split_call

SplitSpec == SplitInit /\ [][SplitNext]_vars

----------------------------------------------------------------------------
(* Properties of the decoder.                                              *)

\* the k-th decoded instruction: its recorded offset and the Instr
Pos(k) == instructions[k][1]
Ins(k) == instructions[k][2]

\* the signed 32-bit big-endian word at byte offset o of the code
Word(o) == read_u32(data, o).v

\* opcode bytes by operand layout, as the class-file format defines them
OneByteOperand == {16, 18, 188}
TwoByteOperand ==
    {17, 19, 20} \cup (153..168) \cup (178..184) \cup {187, 189, 192, 193, 198, 199}
LocalIndexOperand == (21..25) \cup (54..58) \cup {169}
FourByteOperand == {185, 186, 200, 201}

\* zero to three bytes bring the switch operands to a multiple of 4
AlignPad(o) == (4 - ((o + 1) % 4)) % 4

\* high - low + 1 for signed low <= high, cut off past the end of the code
CaseCount(low, high) ==
    IF low > high THEN 0
    ELSE IF low < 0 /\ high >= 0 /\ high > I32Max + low THEN Len(data) + 1
    ELSE Min(high - low, Len(data)) + 1

\* the byte length of the full encoding of the instruction whose first byte
\* (opcode or WIDE prefix) is at offset o
RECURSIVE EncodedLength(_, _)
EncodedLength(o, wide) ==
    LET op == data[o + 1]
        q == o + 1 + AlignPad(o)
    IN  CASE op = 196 -> 1 + EncodedLength(o + 1, TRUE)
          [] op \in OneByteOperand -> 2
          [] op \in TwoByteOperand -> 3
          [] op \in LocalIndexOperand -> IF wide THEN 3 ELSE 2
          [] op = 132 -> IF wide THEN 5 ELSE 3
          [] op = 197 -> 4
          [] op \in FourByteOperand -> 5
          [] op = 170 -> (q - o) + 12 + 4 * CaseCount(Word(q + 4), Word(q + 8))
          [] op = 171 -> (q - o) + 8 + 8 * Word(q + 4)
          [] OTHER -> 1

\* where the instruction after the k-th starts: the next recorded offset, or
\* the code length after the last instruction
NextOffset(k) == IF k < Len(instructions) THEN Pos(k + 1) ELSE Len(data)

\* C1: in a successfully decoded sequence the first offset is 0, offsets
\* increase strictly, and each offset plus the length of the instruction's
\* full encoding is the offset of the next instruction (the code length for
\* the last one).
C1_OffsetsFollowEncoding ==
    status = "ok" =>
        /\ Pos(1) = 0
        /\ \A k \in 1..Len(instructions) :
              /\ Pos(k) < NextOffset(k)
              /\ Pos(k) + EncodedLength(Pos(k), FALSE) = NextOffset(k)

\* the opcodes with a signed 16-bit branch operand: the conditional
\* branches, GOTO, JSR, IFNULL and IFNONNULL
Branch16Ops == (153..168) \cup {198, 199}

\* the signed 16-bit operand of the branch whose opcode is at offset o
Operand16(o) == as_i16(data[o + 2] * U8 + data[o + 3])

\* C2: the target stored in a decoded 16-bit branch is the position of its
\* opcode plus the sign-extended operand.
C2_TargetIsPosPlusOffset ==
    \A k \in 1..Len(instructions) :
        data[Pos(k) + 1] \in Branch16Ops =>
            Ins(k).args[1] = Pos(k) + Operand16(Pos(k))

\* S3 decodes without an error
S3Decodes == data = ScenarioS3 => status \in {"decoding", "ok"}

\* the graph of S3 has blocks at exactly `entries`, and block 0 branches to
\* <<target, 4>>, the IFLT carrying `target`
S3Graph(target, entries) ==
    /\ (data = ScenarioS3 /\ status = "ok") =>
            /\ Ins(2).name = "IfLt"
            /\ Ins(2).args = <<target>>
    /\ (data = ScenarioS3 /\ cfg.state # "none") =>
            /\ cfg.state = "ok"
            /\ DOMAIN cfg.blocks = entries
            /\ 0 \in DOMAIN cfg.blocks => cfg.blocks[0].branches = <<target, 4>>

\* C3 as claimed: in S3 the IFLT carries target 5, the blocks start at 0, 4
\* and 5, and block 0 has successors <<5, 4>>.
C3_ScenarioAsClaimed == S3Decodes /\ S3Graph(5, {0, 4, 5})

\* C3 amended: in S3 the IFLT at offset 1 with operand +5 carries target 6,
\* the blocks start at 0, 4 and 6, and block 0 has successors <<6, 4>>.
C3_Scenario == S3Decodes /\ S3Graph(6, {0, 4, 6})

C3_Witness == data = ScenarioS3 /\ cfg.state = "ok"

\* every variant that carries a branch target in its first field
AllCondBranch == CondBranch \cup {"IfACmpEq", "IfACmpNe", "IfNull", "IfNonNull"}
Switches == {"TableSwitch", "LookupSwitch"}

Range(s) == {s[i] : i \in DOMAIN s}

\* the branch and switch targets an instruction stores
Targets(instr) ==
    IF instr.name \in AllCondBranch \cup {"Goto", "JSr"} THEN {instr.args[1]}
    ELSE IF instr.name \in Switches THEN {instr.args[1]} \cup Range(instr.offsets)
    ELSE {}

Offsets == {Pos(k) : k \in 1..Len(instructions)}

\* C4: every target stored in a successfully decoded sequence is the
\* recorded offset of an instruction of the sequence, and the graph
\* builder's lookups of targets do not fail.
C4_TargetsAreDecoded ==
    status = "ok" =>
        /\ \A k \in 1..Len(instructions) : Targets(Ins(k)) \subseteq Offsets
        /\ ~jump_indices(instructions).panic

----------------------------------------------------------------------------
(* Properties of the control-flow graph.                                   *)

Blocks == cfg.blocks
Entries == DOMAIN cfg.blocks
Last(b) == b.instructions[Len(b.instructions)]

\* C5: every successor of a block of a returned graph is the entry offset
\* of a block of the graph, and the graph has the entry block at offset 0.
C5_SuccessorsAreBlocks ==
    cfg.state = "ok" =>
        /\ \A k \in Entries : Range(Blocks[k].branches) \subseteq Entries
        /\ 0 \in Entries

\* the offset of the instruction after the block's last one
Fallthrough(b) == next_pos(instructions, Last(b)[1])

\* C6: a block ending in a conditional branch has successors
\* <<target, fallthrough>>, also when the two are equal; one ending in GOTO
\* has <<target>>.
C6_BranchSuccessors ==
    cfg.state = "ok" =>
        \A k \in Entries :
            LET b == Blocks[k] IN
            /\ Last(b)[2].name \in AllCondBranch =>
                    b.branches = <<Last(b)[2].args[1], Fallthrough(b)>>
            /\ Last(b)[2].name = "Goto" => b.branches = <<Last(b)[2].args[1]>>

\* the variants that end a method's control flow
ReturnOrThrow == Returns \cup {"AThrow"}

\* C7: a block ending in a return or ATHROW has no successors, and a method
\* whose last instruction is one gets a graph.
C7_ReturnHasNoSuccessors ==
    /\ cfg.state = "ok" =>
          \A k \in Entries :
              Last(Blocks[k])[2].name \in ReturnOrThrow => Blocks[k].branches = <<>>
    /\ (cfg.state = "panic" /\ Len(instructions) = 1) =>
          Ins(1).name \notin ReturnOrThrow

\* C8: a block ending in a switch has successors <<default, case targets>>,
\* and every switch target starts a block.
C8_SwitchSuccessors ==
    cfg.state = "ok" =>
        /\ \A k \in Entries :
              LET l == Last(Blocks[k])[2] IN
              l.name \in Switches => Blocks[k].branches = <<l.args[1]>> \o l.offsets
        /\ \A k \in 1..Len(instructions) :
              Ins(k).name \in Switches => Targets(Ins(k)) \subseteq Entries

\* the variants after which a new block starts
Terminators == AllCondBranch \cup {"Goto", "JSr"} \cup Switches \cup ReturnOrThrow

AllTargets == UNION {Targets(Ins(k)) : k \in 1..Len(instructions)}

\* C9: in a block only the last instruction is a branch, switch, throw or
\* return, and only the first is a branch target.
C9_BlocksAreStraightLine ==
    cfg.state = "ok" =>
        \A k \in Entries :
            LET is == Blocks[k].instructions IN
            \A j \in 1..Len(is) :
                /\ j < Len(is) => is[j][2].name \notin Terminators
                /\ j > 1 => is[j][1] \notin AllTargets

----------------------------------------------------------------------------
(* Properties of the constant pool.                                        *)

\* the pool index of the constant read after the one at index k
Following(k) == IF inner[k].tag \in {5, 6} THEN k + 2 ELSE k + 1

----------------------------------------------------------------------------
(* Properties of the lifter.                                               *)

\* Block::decompile has returned
Returned == liftst \in {"ok", "err"}

\* C11: Block::decompile returns Ok(statements) only with an empty stack
\* after the last instruction of the block; when values remain after the
\* last instruction it returns StackError::Remaining carrying their number,
\* and no statements.
C11_StackEmptyOrRemaining ==
    /\ liftst = "ok" => stack = <<>> /\ pc = Len(block)
    /\ (Returned /\ pc = Len(block) /\ stack # <<>>) =>
          /\ liftst = "err"
          /\ lifterr = [kind |-> "Remaining", nums |-> <<Len(stack)>>]
          /\ statements = <<>>
    /\ (liftst = "err" /\ lifterr.kind = "Remaining") =>
          pc = Len(block) /\ stack # <<>>

C11_Witness ==
    /\ liftst = "err"
    /\ lifterr = [kind |-> "Remaining", nums |-> <<2>>]
    /\ Len(stack) = 2
    /\ pc = Len(block)

\* the step taken is the arm of the instruction `code`, and it succeeded
Lifting(code) ==
    /\ liftst = "lifting"
    /\ pc < Len(block)
    /\ block[pc + 1] = code
    /\ pc' = pc + 1

LiftsOp(names) == \E code \in LiftOps : code.name \in names /\ Lifting(code)

\* the binary arithmetic, bitwise, shift and comparison instructions
BinaryOps == DOMAIN BinaryArms

ScenarioAdd ==
    << Simple("ILoad", <<0>>), Simple("ILoad", <<1>>), Simple("IAdd", <<>>),
       Simple("IReturn", <<>>) >>

Variable(i) == Node("Variable", <<i>>, "Int", <<>>)

\* C12: a binary instruction pushes a node whose left operand is the value
\* that was beneath the top of the stack and whose right operand is the value
\* that was on top; ILOAD_0, ILOAD_1, IADD, IRETURN lifts to
\* [Return(Add(Variable(0), Variable(1)))].
C12_TopIsRightOperand ==
    /\ [][LiftsOp(BinaryOps) =>
             top(stack', 1).kids = <<top(stack, 2), top(stack, 1)>>]_vars
    /\ []((block = ScenarioAdd /\ liftst = "ok") =>
             statements = <<Node("Return", <<>>, "",
                                 <<Node("Add", <<>>, "", <<Variable(0), Variable(1)>>)>>)>>)

----------------------------------------------------------------------------
(* Well-formed descriptors, by their grammar: a field type is a base tag,  *)
(* L<name>; or [ followed by a field type; a method descriptor is          *)
(* ( field types ) followed by a field type or V.                          *)

BaseTags == DOMAIN PrimitiveTags \ {"V"}

\* where the field type starting at s[i] ends, 0 when there is none
RECURSIVE FieldTypeEnd(_, _)
FieldTypeEnd(s, i) ==
    IF i > Len(s) THEN 0
    ELSE IF s[i] \in BaseTags THEN i
    ELSE IF s[i] = "L"
         THEN LET k == find(SubSeq(s, i, Len(s)), ";") IN
              IF k <= 2 THEN 0 ELSE i + k - 1
    ELSE IF s[i] = "[" THEN FieldTypeEnd(s, i + 1)
    ELSE 0

RECURSIVE FieldTypeList(_)
FieldTypeList(s) ==
    s = <<>> \/ LET e == FieldTypeEnd(s, 1) IN
                e # 0 /\ FieldTypeList(SubSeq(s, e + 1, Len(s)))

\* the field types a well-formed list is made of, in order
RECURSIVE SplitTypes(_)
SplitTypes(s) ==
    IF s = <<>> THEN <<>>
    ELSE LET e == FieldTypeEnd(s, 1) IN
         <<SubSeq(s, 1, e)>> \o SplitTypes(SubSeq(s, e + 1, Len(s)))

FieldType(s) == s # <<>> /\ FieldTypeEnd(s, 1) = Len(s)

ParamText(s) == SubSeq(s, 2, find(s, ")") - 1)
ReturnText(s) == SubSeq(s, find(s, ")") + 1, Len(s))

MethodType(s) ==
    /\ s # <<>> /\ s[1] = "(" /\ find(s, ")") # 0
    /\ FieldTypeList(ParamText(s))
    /\ (ReturnText(s) = <<"V">> \/ FieldType(ReturnText(s)))

WellFormed(s) == s = <<"V">> \/ FieldType(s) \/ MethodType(s)

\* the parameter types of a well-formed method descriptor
ParamTypes(s) == SplitTypes(ParamText(s))

----------------------------------------------------------------------------

InvokeOps ==
    {code \in LiftOps :
        /\ code.name \in {"InvokeStatic", "InvokeVirtual", "InvokeSpecial",
                          "InvokeInterface"}
        /\ code.args[1] \in MethodRefs}

\* the descriptor text of the method reference at pool index i
DescriptorText(i) == LiftPool[LiftPool[LiftPool[i].b].b].utf8

\* the call the claim expects from `code` on the stack stk
ExpectedCall(code, stk) ==
    LET i == code.args[1]
        n == Len(ParamTypes(DescriptorText(i)))
        args == SubSeq(stk, Len(stk) - n + 1, Len(stk))
    IN  IF code.name = "InvokeStatic"
        THEN Node("StaticCall", <<i>>, "", args)
        ELSE Node("MethodCall", <<i>>, "", <<stk[Len(stk) - n]>> \o args)

Needs(code) ==
    Len(ParamTypes(DescriptorText(code.args[1])))
        + (IF code.name = "InvokeStatic" THEN 0 ELSE 1)

\* C13: an invoke of a method with n parameter types takes the n values
\* pushed last as args, in push order, and for the instance forms the value
\* pushed before them as receiver; a Void method appends the call to the
\* statements and pushes nothing, any other pushes the call and appends
\* nothing.
C13_InvokeArgsInPushOrder ==
    [][\A code \in InvokeOps :
          Lifting(code) =>
             /\ Len(stack) >= Needs(code)
             /\ LET call == ExpectedCall(code, stack)
                    rest == drop(stack, Needs(code))
                IN  IF ReturnText(DescriptorText(code.args[1])) = <<"V">>
                    THEN statements' = Append(statements, call) /\ stack' = rest
                    ELSE stack' = Append(rest, call) /\ statements' = statements]_vars

\* C20: a conversion instruction replaces the top of the stack by a
\* PrimitiveCast of it to the destination type of the instruction.
CastTargets ==
    [I2b |-> "Byte", I2s |-> "Short", I2c |-> "Char",
     I2l |-> "Long", F2l |-> "Long", D2l |-> "Long",
     I2f |-> "Float", L2f |-> "Float", D2f |-> "Float",
     I2d |-> "Double", L2d |-> "Double", F2d |-> "Double",
     L2i |-> "Int", F2i |-> "Int", D2i |-> "Int"]

C20_CastTargets ==
    [][\A code \in LiftOps :
          (code.name \in DOMAIN CastTargets /\ Lifting(code)) =>
             /\ stack # <<>>
             /\ stack' = Append(drop(stack, 1),
                                Node("PrimitiveCast", <<>>, CastTargets[code.name],
                                     <<top(stack, 1)>>))
             /\ statements' = statements]_vars

----------------------------------------------------------------------------
(* Properties of Descriptor and ClassPath.                                 *)

\* C14: a well-formed descriptor parses without a panic and renders back to
\* itself, and a method descriptor gets one parameter per parameter type of
\* the text, the i-th rendering to the i-th type.
C14_DescriptorRoundTrip ==
    WellFormed(text) =>
        /\ textst # "panic"
        /\ (textst \in {"parsed", "rendered"} /\ MethodType(text)) =>
              /\ parsed.kind = "Method"
              /\ Len(parameters_of(parsed)) = Len(ParamTypes(text))
              /\ \A i \in 1..Len(ParamTypes(text)) :
                    to_internal_java(parameters_of(parsed)[i]) = ParamTypes(text)[i]
        /\ textst = "rendered" => rendered = text

\* C15: an internal name renders back to itself, and its ClassPath holds the
\* package segments, the enclosing type names and the simple name.
C15_ClassPathRoundTrip ==
    \A pk \in Packages, chain \in Chains :
        text = InternalName(pk, chain) =>
            /\ textst \in {"parsed", "rendered"} =>
                  parsed = [name |-> chain[Len(chain)], package |-> pk,
                            outer_classes |-> front(chain)]
            /\ textst = "rendered" => rendered = text

----------------------------------------------------------------------------
(* Properties of AccessFlags.                                              *)

\* C16: in the state set(f) leaves, is_set(f) returns true.
C16_SetThenIsSet == lastcall = "set" => is_set(flags, flag)

C16_Witness == lastcall = "set" /\ flag = "Static" /\ flags = 8

\* C17: is_set(f) returns true exactly when all bits of the mask of f are
\* set in the flag word.
C17_IsSetByMask ==
    lastcall = "is_set" => (answer <=> bitand(flags, value(flag)) = value(flag))

----------------------------------------------------------------------------
(* Properties of the decoder's opcode table.                               *)

\* the opcode bytes of the defined range 0x00..0xCA
DefinedOpcodes == 0..202

\* the decoder is past the first instruction of the code array
FirstDone == status # "decoding" \/ instructions # <<>>

\* C18: with enough operand bytes every opcode byte of 0x00..0xCA decodes to
\* an instruction; a byte outside that range, and no other, fails with
\* UnknownInstruction carrying that byte, and no instructions are returned.
C18_OpcodeRange ==
    /\ (data \in OpcodeProbes /\ data[1] \in DefinedOpcodes /\ FirstDone) =>
          /\ status \in {"decoding", "ok"}
          /\ instructions # <<>> /\ Pos(1) = 0
    /\ (data # <<>> /\ data[1] \notin DefinedOpcodes /\ FirstDone) =>
          status = "UnknownInstruction" /\ errcode = data[1]
    /\ status = "UnknownInstruction" =>
          /\ errcode \notin DefinedOpcodes
          /\ errcode \in {data[i] : i \in 1..Len(data)}
          /\ instructions = <<>>


----------------------------------------------------------------------------
(* write_class and the methods that fail.                                  *)

\* the method's own decoding and lifting succeed
Renders(m) == \A checked \in BOOLEAN : WriteMethod(m, checked) = {"ok"}

\* parse_code or the block lifter returns an Err for the method
DecodeOrLiftFails(m) ==
    \E checked \in BOOLEAN :
        WriteMethod(m, checked) \cap {"BadCodeAttribute", "DecompileError"} # {}

Returned_write_class == writest \notin {"idle", "writing"}

\* C19: when parse_code or the block lifter fails for some methods of a class
\* and every other method renders, write_class still returns Ok and has
\* rendered every method that does not fail.
C19_FailureIsPerMethod ==
    (/\ Returned_write_class
     /\ \E i \in DOMAIN methods : DecodeOrLiftFails(methods[i])
     /\ \A i \in DOMAIN methods :
            Renders(methods[i]) \/ DecodeOrLiftFails(methods[i]))
    => /\ writest = "ok"
       /\ \A i \in DOMAIN methods : Renders(methods[i]) => i \in written


----------------------------------------------------------------------------
(* Properties of the arms of Block::decompile.                             *)

\* the next step is the arm of the instruction `code`, whatever its outcome
Attempts(code) ==
    /\ liftst = "lifting"
    /\ pc < Len(block)
    /\ block[pc + 1] = code

\* the node each arithmetic instruction stands for
ArithmeticNodes ==
    [IMul |-> "Mul", FMul |-> "Mul", DMul |-> "Mul", LMul |-> "Mul",
     IDiv |-> "Div", FDiv |-> "Div", DDiv |-> "Div", LDiv |-> "Div",
     IAdd |-> "Add", FAdd |-> "Add", DAdd |-> "Add", LAdd |-> "Add",
     ISub |-> "Sub", FSub |-> "Sub", DSub |-> "Sub", LSub |-> "Sub",
     IRem |-> "Remainder", FRem |-> "Remainder", DRem |-> "Remainder",
     LRem |-> "Remainder"]

\* C21: an arithmetic instruction pushes the node of its own operation:
\* ?MUL Mul, ?DIV Div, ?ADD Add, ?SUB Sub and ?REM Remainder.
C21_OwnOperationNode ==
    [][\A code \in LiftOps :
          (code.name \in DOMAIN ArithmeticNodes /\ Lifting(code)) =>
             /\ Len(stack') = Len(stack) - 1
             /\ top(stack', 1).op = ArithmeticNodes[code.name]]_vars

\* C22: an array store after pushing r, i, v appends ArrayStore with
\* reference r, index i and value v and pops the three; an array load after
\* pushing r, i replaces them by ArrayLoad with reference r and index i.
C22_ArrayOperands ==
    [][\A code \in LiftOps :
          /\ (code.name \in ArrayStores /\ Lifting(code)) =>
                /\ Len(stack) >= 3
                /\ stack' = drop(stack, 3)
                /\ statements' =
                      Append(statements,
                             Node("ArrayStore", <<>>, "",
                                  <<top(stack, 3), top(stack, 2), top(stack, 1)>>))
          /\ (code.name \in ArrayLoads /\ Lifting(code)) =>
                /\ Len(stack) >= 2
                /\ stack' = Append(drop(stack, 2),
                                   Node("ArrayLoad", <<>>, "",
                                        <<top(stack, 2), top(stack, 1)>>))
                /\ statements' = statements]_vars

\* the slots a duplication works on, and the stack effect of the VM on them
\* (the last element is the top)
DupSlots == [DupX1 |-> 2, DupX2 |-> 3, Dup2 |-> 2, Dup2X1 |-> 3, Dup2X2 |-> 4]

DupEffect(name, s) ==
    CASE name = "DupX1" -> <<s[2], s[1], s[2]>>
      [] name = "DupX2" -> <<s[3], s[1], s[2], s[3]>>
      [] name = "Dup2" -> <<s[1], s[2], s[1], s[2]>>
      [] name = "Dup2X1" -> <<s[2], s[3], s[1], s[2], s[3]>>
      [] name = "Dup2X2" -> <<s[3], s[4], s[1], s[2], s[3], s[4]>>

\* C23: on a stack that holds the slots it works on, a duplication replaces
\* them as the VM does and leaves the entries below them and the statements
\* unchanged.
C23_DupStackEffects ==
    [][\A code \in LiftOps :
          (/\ code.name \in DOMAIN DupSlots
           /\ Attempts(code)
           /\ Len(stack) >= DupSlots[code.name]) =>
             LET k == DupSlots[code.name] IN
             /\ pc' = pc + 1
             /\ stack' = drop(stack, k)
                            \o DupEffect(code.name,
                                         SubSeq(stack, Len(stack) - k + 1, Len(stack)))
             /\ statements' = statements]_vars

\* the conditional branches and the number of expressions each compares
BranchOperands ==
    [IfEq |-> 1, IfNe |-> 1, IfLt |-> 1, IfGe |-> 1, IfGt |-> 1, IfLe |-> 1,
     IfNull |-> 1, IfNonNull |-> 1,
     IfICmpEq |-> 2, IfICmpNe |-> 2, IfICmpLt |-> 2, IfICmpGe |-> 2,
     IfICmpGt |-> 2, IfICmpLe |-> 2, IfACmpEq |-> 2, IfACmpNe |-> 2]

\* C24: a conditional branch on a stack that holds its operands pops them
\* (one, or two for IF_ICMPxx / IF_ACMPxx) and appends exactly one statement,
\* which holds the popped expressions and the target of the instruction.
C24_BranchesAreLifted ==
    [][\A code \in LiftOps :
          (/\ code.name \in DOMAIN BranchOperands
           /\ Attempts(code)
           /\ Len(stack) >= BranchOperands[code.name]) =>
             LET k == BranchOperands[code.name] IN
             /\ pc' = pc + 1
             /\ stack' = drop(stack, k)
             /\ Len(statements') = Len(statements) + 1
             /\ SubSeq(statements', 1, Len(statements)) = statements
             /\ statements'[Len(statements')].nums = <<code.args[1]>>
             /\ Len(statements'[Len(statements')].kids) = k]_vars

\* instructions Block::decompile has no lowering for
Unlowered == {"InvokeDynamic", "ANewArray", "AThrow", "IfNe", "Ret"}

\* C25: an instruction without a lowering makes Block::decompile return an
\* error: it is not skipped and the process is not aborted.
C25_NoSilentRecovery ==
    [][\A code \in LiftOps :
          (code.name \in Unlowered /\ Attempts(code)) =>
             liftst' = "err" /\ statements' = <<>>]_vars

\* the operands the stack instructions need
StackOperands ==
    [Swap |-> 2, Dup |-> 1, DupX1 |-> 2, DupX2 |-> 3, Dup2 |-> 2, Dup2X1 |-> 3,
     Dup2X2 |-> 4, Pop |-> 1, Pop2 |-> 1]

Operands(code) ==
    IF code.name \in DOMAIN StackOperands THEN StackOperands[code.name]
    ELSE IF code.name \in DOMAIN BinaryArms \cup ArrayLoads THEN 2
    ELSE IF code.name \in ArrayStores THEN 3
    ELSE IF code.name \in DOMAIN CastTargets \cup Stores \cup ValueReturns THEN 1
    ELSE IF code.name \in DOMAIN BranchOperands \ {"IfNe"}
    THEN BranchOperands[code.name]
    ELSE 0

\* C27: an instruction that needs more operands than the stack holds makes
\* Block::decompile return StackError::Empty or StackError::NotEnough; it
\* does not panic, and the stack is as it was.
C27_UnderflowIsStackError ==
    [][\A code \in LiftOps :
          (Attempts(code) /\ Len(stack) < Operands(code)) =>
             /\ liftst' = "err"
             /\ lifterr'.kind \in {"Empty", "NotEnough"}
             /\ stack' = stack]_vars


----------------------------------------------------------------------------
(* TABLESWITCH.                                                            *)

\* the operands of the TABLESWITCH whose opcode is at offset o start at q
SwitchOperands(o) == o + 1 + AlignPad(o)

\* pos + offset stays in the i32 range
Resolves(o, offset) == ~add_overflows(o, offset)

\* C26: a decoded TABLESWITCH at offset o, whose operands start at the next
\* multiple of 4, with signed low <= high holds low, high, the default and
\* exactly high - low + 1 case targets, each o plus the offset read.
C26_TableSwitchSigned ==
    \A k \in 1..Len(instructions) :
        Ins(k).name = "TableSwitch" =>
            LET o == Pos(k)
                q == SwitchOperands(o)
                low == Word(q + 4)
                high == Word(q + 8)
            IN  low <= high =>
                  /\ Ins(k).args[2] = low /\ Ins(k).args[3] = high
                  /\ Resolves(o, Word(q)) => Ins(k).args[1] = o + Word(q)
                  /\ Len(Ins(k).offsets) = CaseCount(low, high)
                  /\ \A j \in 1..Len(Ins(k).offsets) :
                        Resolves(o, Word(q + 8 + 4 * j)) =>
                           Ins(k).offsets[j] = o + Word(q + 8 + 4 * j)


----------------------------------------------------------------------------
(* AccessFlags::set and the other bits.                                    *)

\* every bit of the mask of f is on in the flag word v
Holds(v, f) == bitand(v, value(f)) = value(f)

\* C28: set(f) turns on the bits of f and changes no other bit: the word
\* after it is the word before it with the mask of f or-ed in, so f is on and
\* every flag that was on is still on.
C28_SetKeepsOtherBits ==
    [][lastcall' = "set" =>
          /\ flags' = bitor(flags, value(flag'))
          /\ Holds(flags', flag')
          /\ \A g \in AccessFlag : Holds(flags, g) => Holds(flags', g)]_vars


----------------------------------------------------------------------------
(* The index counter of ConstantPool::read.                                *)

\* C29: on the largest declared counts the reader does not panic, its index
\* counter stays in 1..count + 1 (it does not wrap), it has read at most
\* count - 1 constants, and it returns once the counter has reached count.
C29_IndexNeverWraps ==
    /\ poolst # "panic"
    /\ poolst \in {"reading", "ok"} =>
          /\ index >= FirstTailIndex
          /\ index <= size + 1
          /\ FilledCount + nread <= size - 1
    /\ poolst = "ok" => index >= size


----------------------------------------------------------------------------
(* split_at_multiple as a partition of its input.                          *)

\* the positions where one returned slice ends and the next begins
RECURSIVE Boundaries(_, _)
Boundaries(slices, before) ==
    IF Len(slices) <= 1 THEN {}
    ELSE {before + Len(Head(slices))}
           \cup Boundaries(Tail(slices), before + Len(Head(slices)))

\* the distinct split indices strictly between 0 and the length
InnerIndices == {splitidx[k] : k \in DOMAIN splitidx} \ {0, Len(splitvec)}

\* C30: a call of split_at_multiple on a non-empty vector does not panic and
\* returns non-empty slices whose concatenation is the vector, with the
\* boundaries at the distinct split indices strictly between 0 and the length.
C30_SplitPartitions ==
    splitst \in {"ok", "panic"} =>
        /\ splitst = "ok"
        /\ \A k \in DOMAIN splitout : splitout[k] # <<>>
        /\ Flatten(splitout) = splitvec
        /\ Boundaries(splitout, 0) = InnerIndices

====
